---- MODULE Spec2Model ----
(***************************************************************************)
(* Keyframe extraction of video-to-ppt: the frame-difference metric        *)
(* (calculateImageDifference), the seek/sample/compare/capture loop        *)
(* (extractFramesFromVideo), its caller in the local-video page, and the   *)
(* format normalizer (convertToMp4) with the FFmpeg engine it drives.      *)
(*                                                                         *)
(* Durations and intervals are whole seconds.  One JavaScript task, with   *)
(* the microtasks it triggers, is one action: a call up to its first       *)
(* await, the seeked handler, the toBlob callback.  The decoder answers    *)
(* every seek request with one seeked event; the frame shown at a sample   *)
(* time is chosen when the seek completes.  Numbers are exact, not IEEE    *)
(* doubles, except where a comment says otherwise.                         *)
(***************************************************************************)
EXTENDS Integers, Sequences, FiniteSets, TLC

\* ------------------------------------------------------------------ bounds
MaxDuration == 3
MaxInterval == 2
MaxShots == 3
MaxTicks == 3
MaxReports == 2

\* ------------------------------------------------------------------ numbers
\* A JavaScript number that may be NaN.
Num(v) == [nan |-> FALSE, val |-> v]
NaN == [nan |-> TRUE, val |-> 0]

Abs(x) == IF x < 0 THEN -x ELSE x

\* Mutant: the percentage truncated instead of rounded.
RoundPercentTruncated(num, den) ==
    IF den.nan \/ den.val = 0 THEN NaN
    ELSE Num((100 * num) \div den.val)

\* Math.round((num / den) * 100) for 0 <= num <= den: NaN when den is NaN or
\* the quotient is 0 / 0, else the nearest integer, halves rounded up.
RoundPercent(num, den) ==
    IF den.nan \/ den.val = 0 THEN NaN
    ELSE Num((200 * num + den.val) \div (2 * den.val))

\* ------------------------------------------------------------------ frames
FrameW == 2
FrameH == 1

\* ImageData.data of a frame of one colour: 4 bytes (R, G, B, A) per pixel, row
\* after row; a video frame drawn on the canvas is opaque.
Solid(r, g, b) ==
    [i \in 1..(4 * FrameW * FrameH) |->
        CASE i % 4 = 1 -> r
          [] i % 4 = 2 -> g
          [] i % 4 = 3 -> b
          [] OTHER -> 255]

Black == Solid(0, 0, 0)
Gray10 == Solid(10, 10, 10)
Gray15 == Solid(15, 15, 15)
Gray20 == Solid(20, 20, 20)
White == Solid(255, 255, 255)

Frames == {Black, Gray10, Gray20, White}

ImageData(w, h, d) == [width |-> w, height |-> h, data |-> d]
NoImageData == ImageData(0, 0, <<>>)

\* ------------------------------------------------------------------ metric
\* Luma in units of 1/10000: 0.2126 R + 0.7152 G + 0.0722 B.
Luminance(data, i) == 2126 * data[i] + 7152 * data[i + 1] + 722 * data[i + 2]

Limb == 10000
LimbSq == Limb * Limb

\* (diff / 10000)^2 as <<whole, fraction in 1e-8>>, without leaving 32 bits.
SquareOf(diff) ==
    LET a == Abs(diff) \div Limb
        b == Abs(diff) % Limb
        low == ((2 * a * b) % Limb) * Limb + b * b
    IN  <<a * a + (2 * a * b) \div Limb + low \div LimbSq, low % LimbSq>>

\* The sum of two such pairs, each operand evaluated once.
AddSq(x, y) ==
    CHOOSE s \in {<<a[1] + b[1] + (a[2] + b[2]) \div LimbSq,
                    (a[2] + b[2]) % LimbSq>> : a \in {x}, b \in {y}} : TRUE

RECURSIVE SumOfSquares(_, _, _)
SumOfSquares(d1, d2, i) ==
    IF i > Len(d1) THEN <<0, 0>>
    ELSE AddSq(SquareOf(Luminance(d1, i) - Luminance(d2, i)),
               SumOfSquares(d1, d2, i + 4))

\* The score sqrt(sumOfSquares / (length / 4)), kept as its radicand:
\* sum is <<whole, fraction>> of sumOfSquares and n the pixel count.
calculateImageDifference(imgData1, imgData2) ==
    [sum |-> SumOfSquares(imgData1.data, imgData2.data, 1),
     n |-> Len(imgData1.data) \div 4]

\* Mutant: difference >= threshold.
ExceedsOrEquals(difference, threshold) ==
    \/ threshold <= 0
    \/ difference.sum[1] >= threshold * threshold * difference.n

\* difference > threshold, for an integer threshold.
Exceeds(difference, threshold) ==
    \/ threshold < 0
    \/ difference.sum[1] > threshold * threshold * difference.n
    \/ /\ difference.sum[1] = threshold * threshold * difference.n
       /\ difference.sum[2] > 0

\* if (now - lastProgressUpdate > 2000), in seconds
Throttle == 2

\* ------------------------------------------------------------------ state
VARIABLES
    mediaEvent,             \* the media event queued for the video element
    video,                  \* the HTMLVideoElement: duration, currentTime, seeking
    canvas,                 \* the HTMLCanvasElement: context, width, height, bitmap
    pc,                     \* where the extractFramesFromVideo call stands
    options,                \* captureInterval, differenceThreshold, maxScreenshots
    currentTime,            \* let currentTime
    totalDuration,          \* const totalDuration
    previousImageData,      \* let previousImageData
    screenshots,            \* const screenshots: Blob[]
    noNewScreenshotCount,   \* let noNewScreenshotCount
    pendingBlob,            \* the canvas snapshot a toBlob request is encoding
    trace,                  \* seeks, encode requests and callback calls, in order
    page,                   \* the React state of LocalVideoPage
    hpv,                    \* where the handleProcessVideo call stands
    pre,                    \* the locals of the preprocessVideo call
    ffmpeg,                 \* the FFmpeg engine instance of a convertToMp4 call
    conv,                   \* the locals of the convertToMp4 call, and its outcome
    now,                    \* Date.now(), in seconds
    session,                \* the page's other handleProcessVideo calls still pending
    files                   \* the file the page holds, and its handleFileSelect calls

extractVars == <<pc, options, currentTime, totalDuration, previousImageData,
                 screenshots, noNewScreenshotCount, pendingBlob, trace>>
pageVars == <<page, hpv, pre, mediaEvent>>
convVars == <<ffmpeg, conv, now>>

vars == <<video, canvas, pc, options, currentTime, totalDuration,
          previousImageData, screenshots, noNewScreenshotCount, pendingBlob, trace,
          page, hpv, pre, mediaEvent, ffmpeg, conv, now, session, files>>

Durations == 0..MaxDuration
Intervals == 1..MaxInterval
Thresholds == {-1, 0, 15, 300}
ShotCaps == 0..MaxShots

Options == [captureInterval : Intervals,
            differenceThreshold : Thresholds,
            maxScreenshots : ShotCaps]

NoOptions == [captureInterval |-> 0, differenceThreshold |-> 0, maxScreenshots |-> 0]

\* HTMLMediaElement.readyState: no metadata yet, metadata only, a frame to draw.
HAVE_CURRENT_DATA == 2
HAVE_METADATA == HAVE_CURRENT_DATA - 1
HAVE_NOTHING == HAVE_CURRENT_DATA - 2

\* video.duration, video.videoWidth, video.videoHeight: NaN and 0 x 0 until the
\* metadata is loaded.
VideoDuration(v) == IF v.readyState = HAVE_NOTHING THEN NaN ELSE Num(v.duration)
VideoWidth(v) == IF v.readyState = HAVE_NOTHING THEN 0 ELSE FrameW
VideoHeight(v) == IF v.readyState = HAVE_NOTHING THEN 0 ELSE FrameH

\* canvas.width = video.videoWidth; canvas.height = video.videoHeight: sizing a
\* canvas clears it.
SizedCanvas(c, v) ==
    [c EXCEPT !.width = VideoWidth(v), !.height = VideoHeight(v), !.bitmap = <<>>]

\* The size of a <canvas> nobody has sized yet.
DefaultCanvas == [width |-> 300, height |-> 150]

\* useState(...) of LocalVideoPage, once a file is selected and shown.
PageState(interval, threshold, auto) ==
    [captureInterval |-> interval, customThreshold |-> threshold,
     autoThreshold |-> auto, selectedFile |-> TRUE, processingState |-> "idle",
     progress |-> Num(0), error |-> "", screenshots |-> <<>>, selectedFrames |-> {}]

\* No handleProcessVideo call but the one the variables follow, which is the
\* call on the <video> the page shows.
NoSession == [others |-> <<>>, foreground |-> TRUE]

\* No file is held and no handleFileSelect call is awaiting anything.
NoFiles == [selectedFile |-> "", videoUrl |-> "", videoMetadata |-> FALSE,
            calls |-> <<>>]

NoPreprocess == [sampleCount |-> NaN, totalDuration |-> NaN, k |-> 0,
                 previousImageData |-> NoImageData, differences |-> <<>>]

\* No convertToMp4 call has been made; Date.now() is far past the initial
\* lastProgressUpdate of 0.
ConvertInit ==
    /\ ffmpeg = [loaded |-> FALSE, terminated |-> FALSE, input |-> FALSE,
                 output |-> "absent", running |-> <<>>, calls |-> <<>>,
                 runs |-> <<>>]
    /\ conv = [pc |-> "idle", onProgress |-> FALSE, totalDuration |-> <<>>,
               lastProgressUpdate |-> 0, copySucceeded |-> FALSE,
               timer |-> "none", reports |-> <<>>, logTimes |-> <<>>,
               result |-> "none", error |-> "none"]
    /\ now = Throttle + 1

ExtractInit ==
    /\ pc = "ready"
    /\ options = NoOptions
    /\ currentTime = 0
    /\ totalDuration = NaN
    /\ previousImageData = NoImageData
    /\ screenshots = <<>>
    /\ noNewScreenshotCount = 0
    /\ pendingBlob = NoImageData
    /\ trace = <<>>

Init ==
    /\ ExtractInit
    /\ page = PageState(5, 30, TRUE)
    /\ hpv = "none"
    /\ pre = NoPreprocess
    /\ mediaEvent = "none"
    /\ ConvertInit
    /\ session = NoSession
    /\ files = NoFiles
    /\ \E d \in Durations, t \in Durations, c \in BOOLEAN :
          /\ t \in {0, d}
          /\ video = [readyState |-> HAVE_METADATA, duration |-> d,
                      currentTime |-> t, seeking |-> FALSE]
          /\ canvas = [context |-> c, width |-> DefaultCanvas.width,
                       height |-> DefaultCanvas.height, bitmap |-> <<>>]

\* ------------------------------------------------------------------ events
Seek(time) == [ev |-> "seek", time |-> time]
Seeked(time, data) == [ev |-> "seeked", time |-> time, data |-> data]
ToBlob(time) == [ev |-> "toBlob", time |-> time]
ToBlobDone(time, ok) == [ev |-> "toBlobCallback", time |-> time, ok |-> ok]
OnProgress(time, progress) == [ev |-> "onProgress", time |-> time, arg |-> progress]
OnFrameCaptured(time, blob) == [ev |-> "onFrameCaptured", time |-> time, arg |-> blob]
OnComplete(blobs) == [ev |-> "onComplete", arg |-> blobs]

\* The Blob that canvas.toBlob makes of the snapshot taken at sample `time`.
Blob(time, imageData) == [time |-> time, data |-> imageData.data]

\* ------------------------------------------------------------------ extractFramesFromVideo
\* while (currentTime <= totalDuration && screenshots.length < maxScreenshots)
\* Mutant: the cap compared with <= instead of <.
BelowCapOffByOne(shots, opts) == Len(shots) <= opts.maxScreenshots

\* screenshots.length < maxScreenshots
BelowCap(shots, opts) == Len(shots) < opts.maxScreenshots

\* Mutant: the removed break on a run of rejected samples, back in the loop.
LoopConditionEarlyExit(time, duration, shots, opts) ==
    /\ ~duration.nan
    /\ time <= duration.val
    /\ BelowCap(shots, opts)
    /\ noNewScreenshotCount' <= 1

\* Mutant: the walk stops before the sample at the duration itself.
LoopConditionStrict(time, duration, shots, opts) ==
    /\ ~duration.nan
    /\ time < duration.val
    /\ BelowCap(shots, opts)

LoopCondition(time, duration, shots, opts) ==
    /\ ~duration.nan
    /\ time <= duration.val
    /\ BelowCap(shots, opts)

\* The loop head at `time` with `shots` captured and `calls` already made in
\* this step: either captureFrame(time) starts a seek, or onComplete ends the run.
LoopFrom(time, duration, shots, opts, calls) ==
    /\ currentTime' = time
    /\ screenshots' = shots
    /\ IF LoopCondition(time, duration, shots, opts)
       THEN /\ video' = [video EXCEPT !.currentTime = time, !.seeking = TRUE]
            /\ pc' = "seeking"
            /\ trace' = trace \o calls \o <<Seek(time)>>
       ELSE /\ video' = [video EXCEPT !.seeking = FALSE]
            /\ pc' = "done"
            /\ trace' = trace \o calls \o <<OnComplete(shots)>>

\* After `await captureFrame(currentTime)`: report progress, advance, loop.
AfterCapture(shots, calls) ==
    LoopFrom(currentTime + options.captureInterval, totalDuration, shots, options,
             calls \o <<OnProgress(currentTime,
                                   RoundPercent(currentTime, totalDuration))>>)

\* ------------------------------------------------------------------ the page's callbacks
\* onProgress, onFrameCaptured and onComplete as handleProcessVideo passes them.
Deliver(pg, call) ==
    CASE call.ev = "onProgress" -> [pg EXCEPT !.progress = call.arg]
      [] call.ev = "onFrameCaptured" ->
            [pg EXCEPT !.screenshots = Append(@, call.arg)]
      [] call.ev = "onComplete" ->
            [pg EXCEPT !.processingState = "completed",
                       !.progress = Num(100),
                       !.selectedFrames = 0..(Len(call.arg) - 1)]
      [] OTHER -> pg

RECURSIVE DeliverAll(_, _)
DeliverAll(pg, calls) ==
    IF calls = <<>> THEN pg
    ELSE DeliverAll(Deliver(pg, Head(calls)), Tail(calls))

\* What this step appended to the trace.
NewCalls == SubSeq(trace', Len(trace) + 1, Len(trace'))

\* The callbacks of this step reach the page when the page made the call, and
\* `await extractFramesFromVideo(...)` returns once the call has ended.
CallerResumes ==
    IF hpv = "extract"
    THEN /\ page' = DeliverAll(page, NewCalls)
         /\ hpv' = IF pc' \in {"done", "returned"} THEN "ended" ELSE hpv
    ELSE UNCHANGED <<page, hpv>>

\* Mutant: the canvas is sized before the context is tested.
extractFramesFromVideoSizeFirst(opts) ==
    /\ pc = "ready"
    /\ canvas' = SizedCanvas(canvas, video)
    /\ IF ~canvas.context
       THEN /\ pc' = "returned"
            /\ UNCHANGED <<video, options, currentTime, totalDuration,
                           previousImageData, screenshots, noNewScreenshotCount,
                           pendingBlob, trace>>
       ELSE /\ options' = opts
            /\ totalDuration' = VideoDuration(video)
            /\ previousImageData' = NoImageData
            /\ noNewScreenshotCount' = 0
            /\ LoopFrom(0, VideoDuration(video), <<>>, opts, <<>>)
            /\ UNCHANGED pendingBlob

\* The call, up to its first await.
extractFramesFromVideo(opts) ==
    /\ pc = "ready"
    /\ IF ~canvas.context
       THEN /\ pc' = "returned"
            /\ UNCHANGED <<video, canvas, options, currentTime, totalDuration,
                           previousImageData, screenshots, noNewScreenshotCount,
                           pendingBlob, trace>>
       ELSE /\ canvas' = SizedCanvas(canvas, video)
            /\ options' = opts
            /\ totalDuration' = VideoDuration(video)
            /\ previousImageData' = NoImageData
            /\ noNewScreenshotCount' = 0
            /\ LoopFrom(0, VideoDuration(video), <<>>, opts, <<>>)
            /\ UNCHANGED pendingBlob

\* Mutant: the first frame is compared like any other.
ShouldCaptureSkipsFirst(previous, current, threshold) ==
    /\ previous # NoImageData
    /\ Exceeds(calculateImageDifference(previous, current), threshold)

\* Mutant: every sample is taken for a change.
ShouldCaptureAlways(previous, current, threshold) == TRUE

\* shouldCapture of the seeked handler.
ShouldCapture(previous, current, threshold) ==
    IF previous # NoImageData
    THEN Exceeds(calculateImageDifference(previous, current), threshold)
    ELSE TRUE

\* Mutant: resolve() right after the toBlob request instead of in its callback.
OnSeekedResolveEarly(data) ==
    /\ pc = "seeking"
    /\ UNCHANGED <<pre, mediaEvent>>
    /\ video.seeking
    /\ LET currentImageData == ImageData(canvas.width, canvas.height, data)
           shouldCapture == ShouldCapture(previousImageData, currentImageData,
                                          options.differenceThreshold)
       IN  /\ canvas' = [canvas EXCEPT !.bitmap = data]
           /\ noNewScreenshotCount' =
                 IF previousImageData = NoImageData THEN noNewScreenshotCount
                 ELSE IF shouldCapture THEN 0 ELSE noNewScreenshotCount + 1
           /\ previousImageData' = currentImageData
           /\ IF shouldCapture /\ BelowCap(screenshots, options)
              THEN /\ pendingBlob' = currentImageData
                   /\ AfterCapture(screenshots, <<Seeked(currentTime, data),
                                                  ToBlob(currentTime)>>)
              ELSE /\ AfterCapture(screenshots, <<Seeked(currentTime, data)>>)
                   /\ UNCHANGED pendingBlob
    /\ UNCHANGED <<options, totalDuration>>
    /\ CallerResumes

\* Mutant: the first sample stays the baseline of every comparison.
OnSeekedFixedBaseline(data) ==
    /\ pc = "seeking"
    /\ UNCHANGED <<pre, mediaEvent>>
    /\ video.seeking
    /\ LET currentImageData == ImageData(canvas.width, canvas.height, data)
           shouldCapture == ShouldCapture(previousImageData, currentImageData,
                                          options.differenceThreshold)
       IN  /\ canvas' = [canvas EXCEPT !.bitmap = data]
           /\ noNewScreenshotCount' =
                 IF previousImageData = NoImageData THEN noNewScreenshotCount
                 ELSE IF shouldCapture THEN 0 ELSE noNewScreenshotCount + 1
           /\ previousImageData' = IF previousImageData = NoImageData
                                   THEN currentImageData ELSE previousImageData
           /\ IF shouldCapture /\ BelowCap(screenshots, options)
              THEN /\ pendingBlob' = currentImageData
                   /\ pc' = "encoding"
                   /\ video' = [video EXCEPT !.seeking = FALSE]
                   /\ trace' = trace \o <<Seeked(currentTime, data),
                                            ToBlob(currentTime)>>
                   /\ UNCHANGED <<currentTime, screenshots>>
              ELSE /\ AfterCapture(screenshots, <<Seeked(currentTime, data)>>)
                   /\ UNCHANGED pendingBlob
    /\ UNCHANGED <<options, totalDuration>>
    /\ CallerResumes

\* Mutant: the baseline is the last frame whose capture was decided.
OnSeekedBaselineOnCapture(data) ==
    /\ pc = "seeking"
    /\ UNCHANGED <<pre, mediaEvent>>
    /\ video.seeking
    /\ LET currentImageData == ImageData(canvas.width, canvas.height, data)
           shouldCapture == ShouldCapture(previousImageData, currentImageData,
                                          options.differenceThreshold)
       IN  /\ canvas' = [canvas EXCEPT !.bitmap = data]
           /\ noNewScreenshotCount' =
                 IF previousImageData = NoImageData THEN noNewScreenshotCount
                 ELSE IF shouldCapture THEN 0 ELSE noNewScreenshotCount + 1
           /\ previousImageData' = IF shouldCapture
                                   THEN currentImageData ELSE previousImageData
           /\ IF shouldCapture /\ BelowCap(screenshots, options)
              THEN /\ pendingBlob' = currentImageData
                   /\ pc' = "encoding"
                   /\ video' = [video EXCEPT !.seeking = FALSE]
                   /\ trace' = trace \o <<Seeked(currentTime, data),
                                            ToBlob(currentTime)>>
                   /\ UNCHANGED <<currentTime, screenshots>>
              ELSE /\ AfterCapture(screenshots, <<Seeked(currentTime, data)>>)
                   /\ UNCHANGED pendingBlob
    /\ UNCHANGED <<options, totalDuration>>
    /\ CallerResumes

\* video.onseeked of captureFrame: the decoder shows frame `data`.
OnSeeked(data) ==
    /\ pc = "seeking"
    /\ UNCHANGED <<pre, mediaEvent>>
    /\ video.seeking
    /\ LET currentImageData == ImageData(canvas.width, canvas.height, data)
           shouldCapture == ShouldCapture(previousImageData, currentImageData,
                                          options.differenceThreshold)
       IN  /\ canvas' = [canvas EXCEPT !.bitmap = data]
           /\ noNewScreenshotCount' =
                 IF previousImageData = NoImageData THEN noNewScreenshotCount
                 ELSE IF shouldCapture THEN 0 ELSE noNewScreenshotCount + 1
           /\ previousImageData' = currentImageData
           /\ IF shouldCapture /\ BelowCap(screenshots, options)
              THEN /\ pendingBlob' = currentImageData
                   /\ pc' = "encoding"
                   /\ video' = [video EXCEPT !.seeking = FALSE]
                   /\ trace' = trace \o <<Seeked(currentTime, data),
                                            ToBlob(currentTime)>>
                   /\ UNCHANGED <<currentTime, screenshots>>
              ELSE /\ AfterCapture(screenshots, <<Seeked(currentTime, data)>>)
                   /\ UNCHANGED pendingBlob
    /\ UNCHANGED <<options, totalDuration>>
    /\ CallerResumes

\* The toBlob callback with a blob.
ToBlobCallback ==
    /\ pc = "encoding"
    /\ UNCHANGED <<canvas, options, totalDuration, previousImageData,
                   noNewScreenshotCount, pre, mediaEvent>>
    /\ pendingBlob' = NoImageData
    /\ LET blob == Blob(currentTime, pendingBlob)
       IN  AfterCapture(Append(screenshots, blob),
                        <<ToBlobDone(currentTime, TRUE),
                          OnFrameCaptured(currentTime, blob)>>)
    /\ CallerResumes

\* Mutant: resolve() sits inside `if (blob)`, a null blob leaves the promise
\* of captureFrame pending.
ToBlobCallbackNullPending ==
    /\ pc = "encoding"
    /\ UNCHANGED <<video, canvas, options, totalDuration, previousImageData,
                   noNewScreenshotCount, pre, mediaEvent, currentTime,
                   screenshots>>
    /\ pendingBlob' = NoImageData
    /\ pc' = "pending"
    /\ trace' = Append(trace, ToBlobDone(currentTime, FALSE))
    /\ CallerResumes

\* The toBlob callback with null: the image could not be encoded.
ToBlobCallbackNull ==
    /\ pc = "encoding"
    /\ UNCHANGED <<canvas, options, totalDuration, previousImageData,
                   noNewScreenshotCount, pre, mediaEvent>>
    /\ pendingBlob' = NoImageData
    /\ AfterCapture(screenshots, <<ToBlobDone(currentTime, FALSE)>>)
    /\ CallerResumes

\* ------------------------------------------------------------------ preprocessVideo
Min(a, b) == IF a < b THEN a ELSE b
Max(a, b) == IF a > b THEN a ELSE b

\* Math.min(50, Math.max(20, Math.floor(totalDuration / 10)))
SampleCount(duration) ==
    IF duration.nan THEN NaN
    ELSE Num(Min(50, Max(20, duration.val \div 10)))

\* a < b for two scores over frames of one size.
ScoreLess(a, b) ==
    \/ a.sum[1] < b.sum[1]
    \/ a.sum[1] = b.sum[1] /\ a.sum[2] < b.sum[2]

\* differences.push(difference).  The array is only ever read through its
\* sorted copy, so it is kept in ascending order here.
PushDifference(differences, difference) ==
    LET below == SelectSeq(differences, LAMBDA d : ~ScoreLess(difference, d))
        above == SelectSeq(differences, LAMBDA d : ScoreLess(difference, d))
    IN  below \o <<difference>> \o above

\* Mutant: the median is not halved.
FloorWhole(difference) ==
    CHOOSE h \in 0..256 :
        /\ h * h * difference.n <= difference.sum[1]
        /\ (h + 1) * (h + 1) * difference.n > difference.sum[1]

\* Mutant: Math.round(medianDiff * 0.5).
RoundHalf(difference) ==
    CHOOSE h \in 0..128 :
        /\ h = 0 \/ (2 * h - 1) * (2 * h - 1) * difference.n <= difference.sum[1]
        /\ (2 * h + 1) * (2 * h + 1) * difference.n > difference.sum[1]

\* Math.floor(medianDiff * 0.5): the largest h with (2h)^2 <= sumOfSquares / n.
FloorHalf(difference) ==
    CHOOSE h \in 0..128 :
        /\ 4 * h * h * difference.n <= difference.sum[1]
        /\ 4 * (h + 1) * (h + 1) * difference.n > difference.sum[1]

\* Mutant: the halved median is returned as it is.
FinalThresholdUnclamped(differences) ==
    IF Len(differences) = 0 THEN 30
    ELSE FloorHalf(differences[(Len(differences) \div 2) + 1])

\* Mutant: the lower of the two middle elements is the median of an even count.
FinalThresholdLowerMedian(differences) ==
    IF Len(differences) = 0 THEN 30
    ELSE LET medianDiff == differences[(Len(differences) + 1) \div 2]
         IN  Max(5, Min(FloorHalf(medianDiff), 40))

\* The value preprocessVideo returns for the differences it collected.
FinalThreshold(differences) ==
    IF Len(differences) = 0 THEN 30
    ELSE LET medianDiff == differences[(Len(differences) \div 2) + 1]
         IN  Max(5, Min(FloorHalf(medianDiff), 40))

\* The whole durations up to 12 seconds for which totalDuration / sampleCount,
\* added sampleCount times to 0 in doubles, ends above totalDuration (1 / 20
\* added 20 times is 1.0000000000000002); for the others the sum is
\* totalDuration.
SumExceedsDuration == {1, 2, 4, 8, 11}

\* currentTime <= totalDuration after k additions of totalDuration / sampleCount
\* to 0.
TimeWithinDuration(k, duration, sampleCount) ==
    \/ duration.val = 0
    \/ k < sampleCount.val
    \/ k = sampleCount.val /\ duration.val \notin SumExceedsDuration

\* while (currentTime <= totalDuration && differences.length < sampleCount)
PreLoopCondition(k, duration, sampleCount, differences) ==
    /\ ~duration.nan
    /\ TimeWithinDuration(k, duration, sampleCount)
    /\ Len(differences) < sampleCount.val

\* The playback position, in whole seconds, of the k-th calibration sample.
SampleTime(k, duration, sampleCount) == (k * duration.val) \div sampleCount.val

\* ------------------------------------------------------------------ handleProcessVideo
\* The options handleProcessVideo passes to extractFramesFromVideo.
PageOptions(pg, threshold) ==
    [captureInterval |-> pg.captureInterval,
     differenceThreshold |-> threshold,
     maxScreenshots |-> 256]

\* catch (error): setError, setProcessingState("error").
Caught(pg) ==
    /\ page' = [pg EXCEPT !.error = "process failed", !.processingState = "error"]
    /\ hpv' = "caught"

\* setProcessingState("extracting"); await extractFramesFromVideo(...), up to
\* the first await of that call.
StartExtracting(pg, threshold) ==
    /\ extractFramesFromVideo(PageOptions(pg, threshold))
    /\ page' = DeliverAll([pg EXCEPT !.processingState = "extracting"], NewCalls)
    /\ hpv' = IF pc' \in {"done", "returned"} THEN "ended" ELSE "extract"

\* preprocessVideo(video, canvas) up to its first await, and what follows when
\* it returns at once.
StartPreprocess(pg) ==
    IF ~canvas.context
    THEN /\ Caught(pg)
         /\ UNCHANGED <<video, canvas, pre>>
         /\ UNCHANGED extractVars
    ELSE LET duration == VideoDuration(video)
             sampleCount == SampleCount(duration)
         IN  /\ canvas' = SizedCanvas(canvas, video)
             /\ pre' = [sampleCount |-> sampleCount, totalDuration |-> duration,
                        k |-> 0, previousImageData |-> NoImageData,
                        differences |-> <<>>]
             /\ IF PreLoopCondition(0, duration, sampleCount, <<>>)
                THEN /\ video' = [video EXCEPT !.currentTime = 0, !.seeking = TRUE]
                     /\ page' = pg
                     /\ hpv' = "preprocess"
                     /\ UNCHANGED extractVars
                ELSE StartExtracting(pg, FinalThreshold(<<>>))

\* "Determine threshold" and on, once the video is taken to be ready.
DetermineThreshold(pg) ==
    IF pg.autoThreshold
    THEN StartPreprocess(pg)
    ELSE /\ StartExtracting(pg, pg.customThreshold)
         /\ UNCHANGED pre

\* The click on the process button, up to the first await.
handleProcessVideo ==
    /\ hpv = "none"
    /\ page.processingState = "idle"
    /\ page.selectedFile
    /\ LET pg == [page EXCEPT !.processingState = "analyzing",
                              !.progress = Num(0),
                              !.screenshots = <<>>,
                              !.selectedFrames = {}]
       IN  IF video.readyState < HAVE_CURRENT_DATA
           THEN /\ page' = pg
                /\ hpv' = "waitReady"
                /\ UNCHANGED <<video, canvas, pre>>
                /\ UNCHANGED extractVars
           ELSE DetermineThreshold(pg)

\* The video element gets its metadata (and maybe a first frame) and queues
\* loadedmetadata.
VideoLoads(state) ==
    /\ hpv \in {"waitReady", "waitEvent"}
    /\ video.readyState = HAVE_NOTHING
    /\ mediaEvent = "none"
    /\ state \in {HAVE_METADATA, HAVE_CURRENT_DATA}
    /\ video' = [video EXCEPT !.readyState = state]
    /\ mediaEvent' = "loadedmetadata"
    /\ UNCHANGED <<canvas, page, hpv, pre>>
    /\ UNCHANGED extractVars

\* The video element gives up loading and queues error.
VideoFails ==
    /\ hpv \in {"waitReady", "waitEvent"}
    /\ video.readyState = HAVE_NOTHING
    /\ mediaEvent = "none"
    /\ mediaEvent' = "error"
    /\ UNCHANGED <<video, canvas, page, hpv, pre>>
    /\ UNCHANGED extractVars

\* The video element, its metadata known, gets a frame to draw: no event that
\* handleProcessVideo listens to.
VideoBuffers ==
    /\ hpv = "waitReady"
    /\ video.readyState = HAVE_METADATA
    /\ video' = [video EXCEPT !.readyState = HAVE_CURRENT_DATA]
    /\ UNCHANGED <<canvas, page, hpv, pre, mediaEvent>>
    /\ UNCHANGED extractVars

\* video.onloadedmetadata = () => resolve()
OnLoadedMetadata ==
    /\ hpv \in {"waitReady", "waitEvent"}
    /\ mediaEvent = "loadedmetadata"
    /\ mediaEvent' = "none"
    /\ DetermineThreshold(page)

\* video.onerror = () => reject(new Error("Video load failed"))
OnVideoError ==
    /\ hpv \in {"waitReady", "waitEvent"}
    /\ mediaEvent = "error"
    /\ mediaEvent' = "none"
    /\ Caught(page)
    /\ UNCHANGED <<video, canvas, pre>>
    /\ UNCHANGED extractVars

\* setTimeout(() => { if (video.readyState < 2) resolve(); }, 2000)
ReadyTimeout ==
    /\ hpv = "waitReady"
    /\ UNCHANGED mediaEvent
    /\ IF video.readyState < HAVE_CURRENT_DATA
       THEN DetermineThreshold(page)
       ELSE /\ hpv' = "waitEvent"
            /\ UNCHANGED <<video, canvas, page, pre>>
            /\ UNCHANGED extractVars

\* The frames of the videos shown on the page.
PageFrames == {Black, White}

\* video.onseeked of capturePreProcessFrame, and the loop up to its next await.
\* A seek to the position the video is at shows the frame it showed.
OnPreprocessSeeked(data) ==
    /\ hpv = "preprocess"
    /\ video.seeking
    /\ (pre.totalDuration.val = 0 /\ pre.k > 0) => data = pre.previousImageData.data
    /\ UNCHANGED mediaEvent
    /\ LET currentImageData == ImageData(canvas.width, canvas.height, data)
           differences ==
               IF pre.previousImageData # NoImageData
               THEN PushDifference(pre.differences,
                        calculateImageDifference(pre.previousImageData,
                                                 currentImageData))
               ELSE pre.differences
       IN  /\ IF PreLoopCondition(pre.k + 1, pre.totalDuration, pre.sampleCount,
                                  differences)
              THEN /\ canvas' = [canvas EXCEPT !.bitmap = data]
                   /\ pre' = [pre EXCEPT !.k = @ + 1,
                                         !.previousImageData = currentImageData,
                                         !.differences = differences]
                   /\ video' = [video EXCEPT
                                   !.currentTime = SampleTime(pre.k + 1,
                                                              pre.totalDuration,
                                                              pre.sampleCount),
                                   !.seeking = TRUE]
                   /\ UNCHANGED <<page, hpv>>
                   /\ UNCHANGED extractVars
              ELSE /\ pre' = [pre EXCEPT !.k = @ + 1,
                                         !.previousImageData = currentImageData,
                                         !.differences = differences]
                   /\ StartExtracting(page, FinalThreshold(differences))

Next ==
    \/ /\ \E opts \in Options : extractFramesFromVideo(opts)
       /\ UNCHANGED <<pageVars, convVars, files, session>>
    \/ (\E data \in Frames : OnSeeked(data)) /\ UNCHANGED <<convVars, files, session>>
    \/ ToBlobCallback /\ UNCHANGED <<convVars, files, session>>
    \/ ToBlobCallbackNull /\ UNCHANGED <<convVars, files, session>>

Spec == Init /\ [][Next]_vars

\* Direct calls over videos of black and white frames, with the events that
\* the loop awaits: every seek fires its seeked event and every toBlob request
\* its callback.
NextFair ==
    \/ /\ \E opts \in Options : extractFramesFromVideo(opts)
       /\ UNCHANGED <<pageVars, convVars, files, session>>
    \/ (\E data \in {Black, White} : OnSeeked(data)) /\ UNCHANGED <<convVars, files, session>>
    \/ ToBlobCallback /\ UNCHANGED <<convVars, files, session>>
    \/ ToBlobCallbackNull /\ UNCHANGED <<convVars, files, session>>

SpecFair ==
    /\ Init
    /\ [][NextFair]_vars
    /\ WF_vars((\E data \in {Black, White} : OnSeeked(data))
                   /\ UNCHANGED <<convVars, files, session>>)
    /\ WF_vars((ToBlobCallback \/ ToBlobCallbackNull)
                   /\ UNCHANGED <<convVars, files, session>>)

\* The local-video page with a selected file shown in its <video>: the user's
\* settings, and a video that may still be loading.
InitPage ==
    /\ ExtractInit
    /\ hpv = "none"
    /\ pre = NoPreprocess
    /\ mediaEvent = "none"
    /\ ConvertInit
    /\ session = NoSession
    /\ files = NoFiles
    /\ \E interval \in Intervals, auto \in BOOLEAN :
          page = PageState(interval, 15, auto)
    /\ \E d \in Durations, r \in HAVE_NOTHING..HAVE_CURRENT_DATA, c \in BOOLEAN :
          /\ video = [readyState |-> r, duration |-> d,
                      currentTime |-> 0, seeking |-> FALSE]
          /\ canvas = [context |-> c, width |-> DefaultCanvas.width,
                       height |-> DefaultCanvas.height, bitmap |-> <<>>]

NextPage ==
    \/ handleProcessVideo /\ UNCHANGED <<mediaEvent, convVars, files, session>>
    \/ /\ \E state \in {HAVE_METADATA, HAVE_CURRENT_DATA} : VideoLoads(state)
       /\ UNCHANGED <<convVars, files, session>>
    \/ VideoFails /\ UNCHANGED <<convVars, files, session>>
    \/ VideoBuffers /\ UNCHANGED <<convVars, files, session>>
    \/ OnLoadedMetadata /\ UNCHANGED <<convVars, files, session>>
    \/ OnVideoError /\ UNCHANGED <<convVars, files, session>>
    \/ ReadyTimeout /\ UNCHANGED <<convVars, files, session>>
    \/ /\ \E data \in PageFrames : OnPreprocessSeeked(data)
       /\ UNCHANGED <<convVars, files, session>>
    \/ (\E data \in PageFrames : OnSeeked(data)) /\ UNCHANGED <<convVars, files, session>>
    \/ ToBlobCallback /\ UNCHANGED <<convVars, files, session>>
    \/ ToBlobCallbackNull /\ UNCHANGED <<convVars, files, session>>

SpecPage == InitPage /\ [][NextPage]_vars

\* The end-to-end scenario of the specification: a 100-second video sampled
\* every 5 seconds under a manual threshold of 20, whose content changes by
\* more than the threshold at the samples of t = 20 and t = 60 and by no more
\* than the threshold at every other sample; it changes below the threshold
\* at `drifts` samples at most.
Scenario ==
    [duration |-> 100,
     options |-> [captureInterval |-> 5, differenceThreshold |-> 20,
                  maxScreenshots |-> 256],
     changes |-> {20, 60},
     drifts |-> 2]

ScenarioFrames == {Black, Gray20, White}

\* Frame `data` can be what the scenario's video shows at the sample being taken.
IsSceneFrame(data) ==
    LET seen == SelectSeq(trace, LAMBDA e : e.ev = "seeked")
        drifted == {i \in 2..Len(seen) : /\ seen[i].data # seen[i - 1].data
                                         /\ seen[i].time \notin Scenario.changes}
    IN  \/ previousImageData = NoImageData
        \/ /\ Exceeds(calculateImageDifference(
                          previousImageData,
                          ImageData(canvas.width, canvas.height, data)),
                      Scenario.options.differenceThreshold)
                 <=> currentTime \in Scenario.changes
           /\ (data # previousImageData.data /\ currentTime \notin Scenario.changes)
                 => Cardinality(drifted) < Scenario.drifts

InitScenario ==
    /\ ExtractInit
    /\ page = PageState(Scenario.options.captureInterval,
                        Scenario.options.differenceThreshold, FALSE)
    /\ hpv = "none"
    /\ pre = NoPreprocess
    /\ mediaEvent = "none"
    /\ ConvertInit
    /\ session = NoSession
    /\ files = NoFiles
    /\ video = [readyState |-> HAVE_CURRENT_DATA, duration |-> Scenario.duration,
                currentTime |-> 0, seeking |-> FALSE]
    /\ canvas = [context |-> TRUE, width |-> DefaultCanvas.width,
                 height |-> DefaultCanvas.height, bitmap |-> <<>>]

NextScenario ==
    \/ extractFramesFromVideo(Scenario.options) /\ UNCHANGED <<pageVars, convVars, files, session>>
    \/ /\ \E data \in ScenarioFrames : IsSceneFrame(data) /\ OnSeeked(data)
       /\ UNCHANGED <<convVars, files, session>>
    \/ ToBlobCallback /\ UNCHANGED <<convVars, files, session>>
    \/ ToBlobCallbackNull /\ UNCHANGED <<convVars, files, session>>

SpecScenario == InitScenario /\ [][NextScenario]_vars

\* The calibration of a page run alone: the click with the automatic threshold
\* on, the samples of preprocessVideo, and the start of the extraction with the
\* threshold it returned.  A video without metadata (duration NaN) is processed
\* when the 2-second timer of handleProcessVideo runs out.
CalibrationFrames == {Black, Gray15, White}

InitCalibrate ==
    /\ ExtractInit
    /\ hpv = "none"
    /\ pre = NoPreprocess
    /\ mediaEvent = "none"
    /\ ConvertInit
    /\ session = NoSession
    /\ files = NoFiles
    /\ page = PageState(MaxInterval, 15, TRUE)
    /\ \E d \in Durations, r \in {HAVE_NOTHING, HAVE_CURRENT_DATA}, c \in BOOLEAN :
          /\ video = [readyState |-> r, duration |-> d,
                      currentTime |-> 0, seeking |-> FALSE]
          /\ canvas = [context |-> c, width |-> DefaultCanvas.width,
                       height |-> DefaultCanvas.height, bitmap |-> <<>>]

NextCalibrate ==
    \/ handleProcessVideo /\ UNCHANGED <<mediaEvent, convVars, files, session>>
    \/ ReadyTimeout /\ UNCHANGED <<convVars, files, session>>
    \/ /\ \E data \in CalibrationFrames : OnPreprocessSeeked(data)
       /\ UNCHANGED <<convVars, files, session>>

SpecCalibrate == InitCalibrate /\ [][NextCalibrate]_vars

\* ------------------------------------------------------------------ the page's session
\* The page from its first file to a second one.  React keeps the <canvas> for
\* the life of the page and mounts a new <video> for each selected file;
\* handleReset unmounts the <video> but a handleProcessVideo call in flight
\* keeps its reference to it, and to the canvas.  The variables follow one
\* call at a time; the other calls in flight wait in session.others, and
\* Switch changes the call followed.  The files need no conversion and show
\* black frames, and the user resets only once getVideoMetadata has settled
\* (3 seconds at most).
MaxStale == 1

\* No <video> is mounted (no file is selected).
NoVideo == [readyState |-> HAVE_NOTHING, duration |-> 0,
            currentTime |-> 0, seeking |-> FALSE]

\* The call the variables follow, and whether its <video> is the mounted one.
TrackedCall ==
    [hpv |-> hpv, pre |-> pre, video |-> video, mediaEvent |-> mediaEvent,
     mounted |-> session.foreground,
     extract |-> [pc |-> pc, options |-> options, currentTime |-> currentTime,
                  totalDuration |-> totalDuration,
                  previousImageData |-> previousImageData,
                  screenshots |-> screenshots,
                  noNewScreenshotCount |-> noNewScreenshotCount,
                  pendingBlob |-> pendingBlob, trace |-> trace]]

\* A handleProcessVideo call not made yet, on the <video> `element`.
FreshCall(element) ==
    [hpv |-> "none", pre |-> NoPreprocess, video |-> element,
     mediaEvent |-> "none", mounted |-> TRUE,
     extract |-> [pc |-> "ready", options |-> NoOptions, currentTime |-> 0,
                  totalDuration |-> NaN, previousImageData |-> NoImageData,
                  screenshots |-> <<>>, noNewScreenshotCount |-> 0,
                  pendingBlob |-> NoImageData, trace |-> <<>>]]

\* The variables follow `call` from now on.
Track(call) ==
    /\ hpv' = call.hpv
    /\ pre' = call.pre
    /\ video' = call.video
    /\ mediaEvent' = call.mediaEvent
    /\ pc' = call.extract.pc
    /\ options' = call.extract.options
    /\ currentTime' = call.extract.currentTime
    /\ totalDuration' = call.extract.totalDuration
    /\ previousImageData' = call.extract.previousImageData
    /\ screenshots' = call.extract.screenshots
    /\ noNewScreenshotCount' = call.extract.noNewScreenshotCount
    /\ pendingBlob' = call.extract.pendingBlob
    /\ trace' = call.extract.trace

\* handleFileSelect(file) for a file that needs no conversion: validation,
\* reset of the states, setSelectedFile, setVideoUrl, getVideoMetadata.
handleFileSelect(valid, duration, readyState) ==
    /\ session.foreground
    /\ ~page.selectedFile
    /\ page.processingState = "idle"
    /\ IF ~valid
       THEN /\ page' = [page EXCEPT !.error = "invalid file"]
            /\ UNCHANGED video
       ELSE /\ page' = [page EXCEPT !.error = "", !.progress = Num(0),
                                    !.screenshots = <<>>, !.selectedFile = TRUE,
                                    !.processingState = "uploading",
                                    !.selectedFrames = {}]
            /\ video' = [readyState |-> readyState, duration |-> duration,
                         currentTime |-> 0, seeking |-> FALSE]
    /\ UNCHANGED <<canvas, hpv, pre, mediaEvent, session>>
    /\ UNCHANGED extractVars

\* getVideoMetadata settles (metadata, error or its 3-second timeout):
\* setProcessingState("idle").
getVideoMetadata ==
    /\ session.foreground
    /\ page.processingState = "uploading"
    /\ page' = [page EXCEPT !.processingState = "idle"]
    /\ UNCHANGED <<video, canvas, hpv, pre, mediaEvent, session>>
    /\ UNCHANGED extractVars

\* The handleProcessVideo call has returned or was caught: its locals are gone.
\* A call on an unmounted <video> leaves nothing behind.
CallEnds ==
    /\ hpv \in {"ended", "caught"}
    /\ IF session.foreground
       THEN /\ Track(FreshCall(video))
            /\ UNCHANGED session
       ELSE /\ Track(session.others[1])
            /\ session' = [others |-> Tail(session.others),
                           foreground |-> session.others[1].mounted]
    /\ UNCHANGED <<page, canvas>>

\* handleReset: the states go back to their initial values and the <video> is
\* unmounted.  Shown as "new video" once completed and as "select again" in
\* every other state but idle.  A call that awaits something (the video's
\* readiness, a seek, an encoding) goes on with the <video> it holds.
handleReset ==
    LET inFlight == hpv \in {"waitReady", "waitEvent", "preprocess", "extract"}
    IN  /\ session.foreground
        /\ page.selectedFile
        /\ page.processingState \notin {"idle", "uploading"}
        /\ inFlight => Len(session.others) < MaxStale
        /\ page' = [page EXCEPT !.selectedFile = FALSE,
                                !.processingState = "idle",
                                !.progress = Num(0), !.error = "",
                                !.screenshots = <<>>, !.selectedFrames = {}]
        /\ session' = IF inFlight
                      THEN [session EXCEPT
                               !.others = Append(@, [TrackedCall EXCEPT
                                                        !.mounted = FALSE])]
                      ELSE session
        /\ Track(FreshCall(NoVideo))
        /\ UNCHANGED canvas

\* The variables turn to the i-th of the other calls.
Switch(i) ==
    /\ i \in 1..Len(session.others)
    /\ Track(session.others[i])
    /\ session' = [others |-> [session.others EXCEPT ![i] = TrackedCall],
                   foreground |-> session.others[i].mounted]
    /\ UNCHANGED <<page, canvas>>

\* A click on frame `index` of the grid, which takes clicks once completed.
toggleFrameSelection(index) ==
    /\ page.processingState = "completed"
    /\ index \in 0..(Len(page.screenshots) - 1)
    /\ page' = [page EXCEPT !.selectedFrames = IF index \in @ THEN @ \ {index}
                                                ELSE @ \cup {index}]

\* The select-all button, shown above a non-empty grid once completed.
handleSelectAll ==
    /\ page.processingState = "completed"
    /\ Len(page.screenshots) > 0
    /\ page' = [page EXCEPT !.selectedFrames =
                               IF Cardinality(@) = Len(page.screenshots) THEN {}
                               ELSE 0..(Len(page.screenshots) - 1)]

InitSession ==
    /\ ExtractInit
    /\ hpv = "none"
    /\ pre = NoPreprocess
    /\ mediaEvent = "none"
    /\ ConvertInit
    /\ session = NoSession
    /\ files = NoFiles
    /\ \E auto \in BOOLEAN :
          page = [PageState(MaxInterval, 15, auto) EXCEPT !.selectedFile = FALSE]
    /\ video = NoVideo
    /\ canvas = [context |-> TRUE, width |-> DefaultCanvas.width,
                 height |-> DefaultCanvas.height, bitmap |-> <<>>]

NextSession ==
    \/ /\ \E valid \in BOOLEAN, readyState \in {HAVE_NOTHING, HAVE_CURRENT_DATA} :
             handleFileSelect(valid, MaxDuration, readyState)
       /\ UNCHANGED <<convVars, files>>
    \/ getVideoMetadata /\ UNCHANGED <<convVars, files>>
    \/ handleReset /\ UNCHANGED <<convVars, files>>
    \/ /\ \E index \in 0..(MaxShots - 1) : toggleFrameSelection(index)
       /\ UNCHANGED <<video, canvas, extractVars, hpv, pre, mediaEvent, convVars, files,
                      session>>
    \/ /\ handleSelectAll
       /\ UNCHANGED <<video, canvas, extractVars, hpv, pre, mediaEvent, convVars, files,
                      session>>
    \/ CallEnds /\ UNCHANGED <<convVars, files>>
    \/ (\E i \in 1..MaxStale : Switch(i)) /\ UNCHANGED <<convVars, files>>
    \/ /\ session.foreground
       /\ handleProcessVideo
       /\ UNCHANGED <<mediaEvent, convVars, files, session>>
    \/ /\ \E state \in {HAVE_METADATA, HAVE_CURRENT_DATA} : VideoLoads(state)
       /\ UNCHANGED <<convVars, files, session>>
    \/ VideoFails /\ UNCHANGED <<convVars, files, session>>
    \/ VideoBuffers /\ UNCHANGED <<convVars, files, session>>
    \/ OnLoadedMetadata /\ UNCHANGED <<convVars, files, session>>
    \/ OnVideoError /\ UNCHANGED <<convVars, files, session>>
    \/ ReadyTimeout /\ UNCHANGED <<convVars, files, session>>
    \/ OnPreprocessSeeked(Black) /\ UNCHANGED <<convVars, files, session>>
    \/ OnSeeked(Black) /\ UNCHANGED <<convVars, files, session>>
    \/ ToBlobCallback /\ UNCHANGED <<convVars, files, session>>
    \/ ToBlobCallbackNull /\ UNCHANGED <<convVars, files, session>>

SpecSession == InitSession /\ [][NextSession]_vars

\* ------------------------------------------------------------------ selecting a file
\* handleFileSelect with its awaits.  A file that is not MP4 is converted
\* first; every accepted file ends in getVideoMetadata.  `files.calls` holds the
\* handleFileSelect calls that await convertToMp4 ("convert") or whose
\* getVideoMetadata awaits the probe ("metadata"); `current` tells the call of
\* the file the page holds from the calls a reset left behind.  convertToMp4 is
\* taken by its outcome, its progress callback is left out, and no file is
\* processed.  A file is its name; "notes.txt" fails the validation.

\* file.name.replace(/\.[^/.]+$/, "_converted.mp4")
Converted(file) ==
    IF file = "a.webm" THEN "a_converted.mp4" ELSE "b_converted.mp4"

\* handleFileSelect, up to `await convertToMp4(...)` for a file that is not
\* MP4 and through the call of getVideoMetadata for an MP4 file.  The upload
\* panel is shown while no file is held.
SelectFile(file) ==
    /\ files.selectedFile = ""
    /\ Len(files.calls) <= MaxStale
    /\ IF file = "notes.txt"
       THEN /\ page' = [page EXCEPT !.error = "invalid file"]
            /\ UNCHANGED files
       ELSE LET isMP4Format == file = "b.mp4"
            IN  /\ page' = [page EXCEPT
                               !.error = IF isMP4Format THEN ""
                                         ELSE "converting to MP4",
                               !.progress = Num(0),
                               !.screenshots = <<>>,
                               !.selectedFile = TRUE,
                               !.processingState = IF isMP4Format THEN "uploading"
                                                   ELSE "converting",
                               !.selectedFrames = {}]
                /\ files' = [selectedFile |-> file,
                             videoUrl |-> IF isMP4Format THEN file ELSE "",
                             videoMetadata |-> FALSE,
                             calls |-> Append(files.calls,
                                              [file |-> file, current |-> TRUE,
                                               at |-> IF isMP4Format THEN "metadata"
                                                      ELSE "convert"])]

\* convertToMp4 resolves for the i-th call: the converted file is set, its URL
\* created, and getVideoMetadata called.
ConvertResolves(i) ==
    /\ i \in 1..Len(files.calls)
    /\ files.calls[i].at = "convert"
    /\ page' = [page EXCEPT !.selectedFile = TRUE, !.error = ""]
    /\ files' = [files EXCEPT !.selectedFile = Converted(files.calls[i].file),
                              !.videoUrl = Converted(files.calls[i].file),
                              !.calls[i].at = "metadata"]

\* Mutant: the catch block of handleFileSelect only logs.
ConvertRejectsLogged(i) ==
    /\ i \in 1..Len(files.calls)
    /\ files.calls[i].at = "convert"
    /\ UNCHANGED page
    /\ files' = [files EXCEPT
                    !.calls = [j \in 1..(Len(@) - 1) |->
                                  IF j < i THEN @[j] ELSE @[j + 1]]]

\* convertToMp4 rejects for the i-th call: the catch block of handleFileSelect.
ConvertRejects(i) ==
    /\ i \in 1..Len(files.calls)
    /\ files.calls[i].at = "convert"
    /\ page' = [page EXCEPT !.error = "conversion failed",
                            !.processingState = "error"]
    /\ files' = [files EXCEPT
                    !.videoUrl = "",
                    !.calls = [j \in 1..(Len(@) - 1) |->
                                  IF j < i THEN @[j] ELSE @[j + 1]]]

\* The promise of getVideoMetadata settles for the i-th call: by
\* loadedmetadata (`loaded`), by the error event, or by the 3-second timer.
MetadataSettles(i, loaded) ==
    /\ i \in 1..Len(files.calls)
    /\ files.calls[i].at = "metadata"
    /\ page' = [page EXCEPT !.processingState = "idle"]
    /\ files' = [files EXCEPT
                    !.videoMetadata = loaded \/ @,
                    !.calls = [j \in 1..(Len(@) - 1) |->
                                  IF j < i THEN @[j] ELSE @[j + 1]]]

\* handleReset on this page: "select again" is shown with a file in every state
\* but idle.  The calls in flight go on.
ResetSelection ==
    /\ files.selectedFile # ""
    /\ page.processingState # "idle"
    /\ page' = [page EXCEPT !.selectedFile = FALSE,
                            !.processingState = "idle",
                            !.progress = Num(0), !.error = "",
                            !.screenshots = <<>>, !.selectedFrames = {}]
    /\ files' = [selectedFile |-> "", videoUrl |-> "", videoMetadata |-> FALSE,
                 calls |-> [j \in 1..Len(files.calls) |->
                               [files.calls[j] EXCEPT !.current = FALSE]]]

NextSelect ==
    \/ /\ \E file \in {"a.webm", "b.avi", "b.mp4", "notes.txt"} : SelectFile(file)
       /\ UNCHANGED <<video, canvas, extractVars, hpv, pre, mediaEvent, convVars,
                      session>>
    \/ /\ \E i \in 1..(MaxStale + 1) : ConvertResolves(i)
       /\ UNCHANGED <<video, canvas, extractVars, hpv, pre, mediaEvent, convVars,
                      session>>
    \/ /\ \E i \in 1..(MaxStale + 1) : ConvertRejects(i)
       /\ UNCHANGED <<video, canvas, extractVars, hpv, pre, mediaEvent, convVars,
                      session>>
    \/ /\ \E i \in 1..(MaxStale + 1), loaded \in BOOLEAN : MetadataSettles(i, loaded)
       /\ UNCHANGED <<video, canvas, extractVars, hpv, pre, mediaEvent, convVars,
                      session>>
    \/ /\ ResetSelection
       /\ UNCHANGED <<video, canvas, extractVars, hpv, pre, mediaEvent, convVars,
                      session>>

\* Every convertToMp4 call settles, and so does every getVideoMetadata wait,
\* by its timer at the latest.
SpecSelect ==
    /\ InitSession
    /\ [][NextSelect]_vars
    /\ WF_vars(/\ \E i \in 1..(MaxStale + 1) : ConvertResolves(i) \/ ConvertRejects(i)
               /\ UNCHANGED <<video, canvas, extractVars, hpv, pre, mediaEvent,
                              convVars, session>>)
    /\ WF_vars(/\ \E i \in 1..(MaxStale + 1), loaded \in BOOLEAN :
                     MetadataSettles(i, loaded)
               /\ UNCHANGED <<video, canvas, extractVars, hpv, pre, mediaEvent,
                              convVars, session>>)

\* ------------------------------------------------------------------ convertToMp4
\* An await of convertToMp4 separates two actions.  The engine runs the exec
\* commands it was given one at a time, in order; `running` holds the commands
\* given and not finished, `calls` the methods convertToMp4 called, and `runs`
\* the commands that ended, each with how it ended and the output.mp4 it left.
\* An error is the set of the classified words its message contains, and where
\* convertToMp4 stood when it was thrown.  The 5-minute timer fires at a time the environment chooses.
Keywords == {"SharedArrayBuffer", "network", "memory", "timeout"}
ErrorMessages == {{}, {"SharedArrayBuffer"}, {"network"}, {"memory"}, {"timeout"},
                  {"SharedArrayBuffer", "network"}, {"network", "memory"},
                  {"memory", "timeout"}}
\* Mutant: the timer's error says "Conversion took too long".
TimeoutMessageUnclassified == {}
TimeoutMessage == {"timeout"}       \* "Conversion timeout after 5 minutes"
EmptyOutputMessage == {}            \* "Conversion produced empty output"

\* The number after "frame=" in a log line.
FrameCounts == {0, 99, 100, 300, 600}

\* The engine's progress ratio in thousandths, or a value that is not a finite
\* number.
EngineProgress(milli) == [finite |-> TRUE, milli |-> milli]
NotFinite == [finite |-> FALSE, milli |-> 0]
EngineProgressValues ==
    {NotFinite} \cup {EngineProgress(m) : m \in {-500, 0, 4, 5, 2500}}

\* The values of videoElement.duration the metadata probe can see; NaN when
\* metadata did not load (error, or the 2-second timeout).
ProbedDurations == {NaN, Num(0), Num(MaxDuration)}

\* An onProgress call, and the handler that made it.
Report(by, value) == [by |-> by, value |-> value]

\* Mutant: the catch block tests for "timeout" first.
ClassifiedErrorTimeoutFirst(message) ==
    IF "timeout" \in message THEN "timeout"
    ELSE IF "SharedArrayBuffer" \in message THEN "SharedArrayBuffer"
    ELSE IF "network" \in message THEN "network"
    ELSE IF "memory" \in message THEN "memory"
    ELSE "generic"

\* The catch block of convertToMp4: classify, then throw.
ClassifiedError(message) ==
    IF "SharedArrayBuffer" \in message THEN "SharedArrayBuffer"
    ELSE IF "network" \in message THEN "network"
    ELSE IF "memory" \in message THEN "memory"
    ELSE IF "timeout" \in message THEN "timeout"
    ELSE "generic"

Rejected(c, message) ==
    [c EXCEPT !.pc = "rejected",
              !.error = [class |-> ClassifiedError(message), message |-> message,
                         at |-> c.pc]]

Run(command, outcome, output) ==
    [command |-> command, outcome |-> outcome, output |-> output]

Called(engine, call) == [engine EXCEPT !.calls = Append(@, call)]

Exec(engine, command) ==
    [Called(engine, command) EXCEPT !.running = Append(@, command)]

\* The call up to `await ffmpeg.load(...)`: the handlers are registered.
convertToMp4(onProgress) ==
    /\ conv.pc = "idle"
    /\ conv' = [conv EXCEPT !.pc = "loading", !.onProgress = onProgress]
    /\ ffmpeg' = Called(ffmpeg, "load")
    /\ UNCHANGED now

\* The staged percentage of the log handler for a frame count, if any.
LogStage(frameCount) ==
    IF frameCount > 0 /\ frameCount < 100 THEN <<20>>
    ELSE IF frameCount >= 100 /\ frameCount < 300 THEN <<40>>
    ELSE IF frameCount >= 300 /\ frameCount < 600 THEN <<60>>
    ELSE IF frameCount >= 600 THEN <<80>>
    ELSE <<>>

\* Mutant: the log handler reports on every "frame=" line.
OnLogUnthrottled(frameCount) ==
    /\ ffmpeg.running # <<>>
    /\ conv.onProgress
    /\ LET stage == LogStage(frameCount)
       IN  /\ Len(conv.reports) + Len(stage) <= MaxReports
           /\ conv' = [conv EXCEPT
                          !.lastProgressUpdate = now,
                          !.reports = @ \o [i \in 1..Len(stage) |->
                                               Report("log", stage[i])],
                          !.logTimes = @ \o [i \in 1..Len(stage) |-> now]]
    /\ UNCHANGED <<ffmpeg, now>>

\* ffmpeg.on("log") for a message with "frame=<frameCount>"; frameCount is
\* written and read by this handler only.  logTimes keeps Date.now() of the
\* handler's onProgress calls.
OnLog(frameCount) ==
    /\ ffmpeg.running # <<>>
    /\ conv.onProgress
    /\ LET due == now - conv.lastProgressUpdate > Throttle
           stage == IF due THEN LogStage(frameCount) ELSE <<>>
       IN  /\ Len(conv.reports) + Len(stage) <= MaxReports
           /\ conv' = [conv EXCEPT
                          !.lastProgressUpdate = IF due THEN now ELSE @,
                          !.reports = @ \o [i \in 1..Len(stage) |->
                                               Report("log", stage[i])],
                          !.logTimes = @ \o [i \in 1..Len(stage) |-> now]]
    /\ UNCHANGED <<ffmpeg, now>>

\* Math.max(0, Math.min(100, Math.round(progress * 100))), or 0
ProgressPercent(progress) ==
    IF progress.finite
    THEN Max(0, Min(100, (progress.milli + 5) \div 10))
    ELSE 0

\* ffmpeg.on("progress"), registered when there is an onProgress.
OnEngineProgress(progress) ==
    /\ ffmpeg.running # <<>>
    /\ conv.onProgress
    /\ Len(conv.reports) < MaxReports
    /\ conv' = [conv EXCEPT
                   !.reports = IF ProgressPercent(progress) > 0
                               THEN Append(@, Report("progress",
                                                     ProgressPercent(progress)))
                               ELSE @]
    /\ UNCHANGED <<ffmpeg, now>>

\* Time passes while the engine works.
Tick ==
    /\ ffmpeg.running # <<>>
    /\ now < Throttle + 1 + MaxTicks
    /\ now' = now + 1
    /\ UNCHANGED <<ffmpeg, conv>>

\* ffmpeg.load resolves, from unpkg or from the alternative CDN.
LoadResolves ==
    /\ conv.pc \in {"loading", "loadingAlt"}
    /\ ffmpeg' = [ffmpeg EXCEPT !.loaded = TRUE]
    /\ conv' = [conv EXCEPT !.pc = "probing"]
    /\ UNCHANGED now

\* The load from unpkg fails: the alternative CDN is tried.
LoadRejects ==
    /\ conv.pc = "loading"
    /\ conv' = [conv EXCEPT !.pc = "loadingAlt"]
    /\ ffmpeg' = Called(ffmpeg, "load")
    /\ UNCHANGED now

\* The load from the alternative CDN fails too.
AltLoadRejects(message) ==
    /\ conv.pc = "loadingAlt"
    /\ conv' = Rejected(conv, message)
    /\ UNCHANGED <<ffmpeg, now>>

\* The metadata probe resolves (loadedmetadata, error or the 2-second timer),
\* and the input is handed to ffmpeg.writeFile.
MetadataProbeResolves(duration) ==
    /\ conv.pc = "probing"
    /\ conv' = [conv EXCEPT
                   !.pc = "writing",
                   !.totalDuration = IF ~duration.nan /\ duration.val # 0
                                     THEN <<duration.val>> ELSE @]
    /\ ffmpeg' = Called(ffmpeg, "writeFile")
    /\ UNCHANGED now

\* writeFile resolves: the timer is set and the copy command is given.
WriteFileResolves ==
    /\ conv.pc = "writing"
    /\ conv' = [conv EXCEPT !.pc = "copy", !.timer = "armed"]
    /\ ffmpeg' = Exec([ffmpeg EXCEPT !.input = TRUE], "copy")
    /\ UNCHANGED now

WriteFileRejects(message) ==
    /\ conv.pc = "writing"
    /\ conv' = Rejected(conv, message)
    /\ UNCHANGED <<ffmpeg, now>>

\* What a finished run can leave as output.mp4: a successful run writes it, a
\* failed run may leave none, an empty one or a partial one.
ExecOutputs(code) ==
    IF code = 0 THEN {"empty", "data"} ELSE {"absent", "empty", "data"}

\* Mutant: the re-encode command is given after the copy command whatever the
\* copy command did.
ExecResolvesAlwaysFallsBack(code, output) ==
    /\ ffmpeg.running # <<>>
    /\ output \in ExecOutputs(code)
    /\ LET command == Head(ffmpeg.running)
           ended == [ffmpeg EXCEPT
                        !.running = Tail(@),
                        !.output = output,
                        !.runs = Append(@, Run(command,
                                               IF code = 0 THEN "ok" ELSE "failed",
                                               output))]
       IN  IF conv.pc = command /\ command = "copy"
           THEN /\ conv' = [conv EXCEPT !.pc = "fallback", !.copySucceeded = TRUE]
                /\ ffmpeg' = Exec(ended, "fallback")
           ELSE IF conv.pc = command
           THEN /\ conv' = [conv EXCEPT !.pc = "reading"]
                /\ ffmpeg' = Called(ended, "readFile")
           ELSE /\ ffmpeg' = ended
                /\ UNCHANGED conv
    /\ UNCHANGED now

\* The running command ends and its exec promise resolves with the exit code.
\* convertToMp4, when it still awaits that command, goes on to readFile: the
\* exit code is not looked at.
ExecResolves(code, output) ==
    /\ ffmpeg.running # <<>>
    /\ output \in ExecOutputs(code)
    /\ LET command == Head(ffmpeg.running)
           ended == [ffmpeg EXCEPT
                        !.running = Tail(@),
                        !.output = output,
                        !.runs = Append(@, Run(command,
                                               IF code = 0 THEN "ok" ELSE "failed",
                                               output))]
       IN  IF conv.pc = command
           THEN /\ conv' = [conv EXCEPT
                               !.pc = "reading",
                               !.copySucceeded = (command = "copy")]
                /\ ffmpeg' = Called(ended, "readFile")
           ELSE /\ ffmpeg' = ended
                /\ UNCHANGED conv
    /\ UNCHANGED now

\* The exec promise of the running command rejects.  A rejected copy is
\* followed by the re-encode command; a rejected re-encode is rethrown.
ExecRejects(message) ==
    /\ ffmpeg.running # <<>>
    /\ LET command == Head(ffmpeg.running)
           ended == [ffmpeg EXCEPT
                        !.running = Tail(@),
                        !.runs = Append(@, Run(command, "rejected", ffmpeg.output))]
       IN  IF conv.pc = command /\ command = "copy"
           THEN /\ conv' = [conv EXCEPT !.pc = "fallback"]
                /\ ffmpeg' = Exec(ended, "fallback")
           ELSE IF conv.pc = command
           THEN /\ conv' = Rejected(conv, message)
                /\ ffmpeg' = ended
           ELSE /\ ffmpeg' = ended
                /\ UNCHANGED conv
    /\ UNCHANGED now

\* The 5-minute timer rejects timeoutPromise.  During the copy phase the race
\* rejects, the re-encode command is given, and the second race, against the
\* same rejected promise, rejects in the same task.
TimeoutFires ==
    /\ conv.timer = "armed"
    /\ IF conv.pc = "copy"
       THEN /\ conv' = Rejected([conv EXCEPT !.timer = "fired"], TimeoutMessage)
            /\ ffmpeg' = Exec(ffmpeg, "fallback")
       ELSE IF conv.pc = "fallback"
       THEN /\ conv' = Rejected([conv EXCEPT !.timer = "fired"], TimeoutMessage)
            /\ UNCHANGED ffmpeg
       ELSE /\ conv' = [conv EXCEPT !.timer = "fired"]
            /\ UNCHANGED ffmpeg
    /\ UNCHANGED now

\* Mutant: the output read back is accepted whatever its length.
ReadFileResolvesUnchecked ==
    /\ conv.pc = "reading"
    /\ ffmpeg.output # "absent"
    /\ conv' = [conv EXCEPT
                   !.pc = "deleteInput",
                   !.result = ffmpeg.output,
                   !.reports = IF conv.onProgress
                               THEN Append(@, Report("final", 100))
                               ELSE @]
    /\ ffmpeg' = Called(ffmpeg, "deleteFile input")
    /\ UNCHANGED now

\* readFile resolves with the output; an empty one is an error, any other gets
\* the final progress update and the cleanup starts.
ReadFileResolves ==
    /\ conv.pc = "reading"
    /\ ffmpeg.output # "absent"
    /\ IF ffmpeg.output = "empty"
       THEN /\ conv' = Rejected(conv, EmptyOutputMessage)
            /\ UNCHANGED ffmpeg
       ELSE /\ conv' = [conv EXCEPT
                           !.pc = "deleteInput",
                           !.result = ffmpeg.output,
                           !.reports = IF conv.onProgress
                                       THEN Append(@, Report("final", 100))
                                       ELSE @]
            /\ ffmpeg' = Called(ffmpeg, "deleteFile input")
    /\ UNCHANGED now

ReadFileRejects(message) ==
    /\ conv.pc = "reading"
    /\ conv' = Rejected(conv, message)
    /\ UNCHANGED <<ffmpeg, now>>

\* ffmpeg.terminate(), and the return of the blob.
Terminated(engine) ==
    [Called(engine, "terminate") EXCEPT
        !.loaded = FALSE, !.terminated = TRUE, !.running = <<>>]

\* A deleteFile of the cleanup resolves.
DeleteFileResolves ==
    /\ conv.pc \in {"deleteInput", "deleteOutput"}
    /\ IF conv.pc = "deleteInput"
       THEN /\ conv' = [conv EXCEPT !.pc = "deleteOutput"]
            /\ ffmpeg' = Called([ffmpeg EXCEPT !.input = FALSE],
                                "deleteFile output")
       ELSE /\ conv' = [conv EXCEPT !.pc = "resolved"]
            /\ ffmpeg' = Terminated([ffmpeg EXCEPT !.output = "absent"])
    /\ UNCHANGED now

\* Mutant: a rejected deleteFile reaches the caller.
DeleteFileRejectsPropagates ==
    /\ conv.pc \in {"deleteInput", "deleteOutput"}
    /\ conv' = Rejected(conv, {})
    /\ ffmpeg' = Terminated(ffmpeg)
    /\ UNCHANGED now

\* A deleteFile of the cleanup rejects: the error is logged, the rest of the
\* cleanup is skipped.
DeleteFileRejects ==
    /\ conv.pc \in {"deleteInput", "deleteOutput"}
    /\ conv' = [conv EXCEPT !.pc = "resolved"]
    /\ ffmpeg' = Terminated(ffmpeg)
    /\ UNCHANGED now

NextConvert ==
    \/ /\ \E onProgress \in BOOLEAN : convertToMp4(onProgress)
       /\ UNCHANGED <<video, canvas, extractVars, pageVars, session, files>>
    \/ /\ \E frameCount \in FrameCounts : OnLog(frameCount)
       /\ UNCHANGED <<video, canvas, extractVars, pageVars, session, files>>
    \/ /\ \E progress \in EngineProgressValues : OnEngineProgress(progress)
       /\ UNCHANGED <<video, canvas, extractVars, pageVars, session, files>>
    \/ Tick /\ UNCHANGED <<video, canvas, extractVars, pageVars, session, files>>
    \/ LoadResolves /\ UNCHANGED <<video, canvas, extractVars, pageVars, session, files>>
    \/ LoadRejects /\ UNCHANGED <<video, canvas, extractVars, pageVars, session, files>>
    \/ /\ \E message \in ErrorMessages : AltLoadRejects(message)
       /\ UNCHANGED <<video, canvas, extractVars, pageVars, session, files>>
    \/ /\ \E duration \in ProbedDurations : MetadataProbeResolves(duration)
       /\ UNCHANGED <<video, canvas, extractVars, pageVars, session, files>>
    \/ WriteFileResolves /\ UNCHANGED <<video, canvas, extractVars, pageVars, session, files>>
    \/ /\ \E message \in ErrorMessages : WriteFileRejects(message)
       /\ UNCHANGED <<video, canvas, extractVars, pageVars, session, files>>
    \/ /\ \E code \in {0, 1}, output \in {"absent", "empty", "data"} :
             ExecResolves(code, output)
       /\ UNCHANGED <<video, canvas, extractVars, pageVars, session, files>>
    \/ /\ \E message \in ErrorMessages : ExecRejects(message)
       /\ UNCHANGED <<video, canvas, extractVars, pageVars, session, files>>
    \/ TimeoutFires /\ UNCHANGED <<video, canvas, extractVars, pageVars, session, files>>
    \/ ReadFileResolves /\ UNCHANGED <<video, canvas, extractVars, pageVars, session, files>>
    \/ /\ \E message \in ErrorMessages : ReadFileRejects(message)
       /\ UNCHANGED <<video, canvas, extractVars, pageVars, session, files>>
    \/ DeleteFileResolves /\ UNCHANGED <<video, canvas, extractVars, pageVars, session, files>>
    \/ DeleteFileRejects /\ UNCHANGED <<video, canvas, extractVars, pageVars, session, files>>

\* A page with a video nobody is processing, before a convertToMp4 call.
InitConvert ==
    /\ ExtractInit
    /\ page = PageState(5, 30, TRUE)
    /\ hpv = "none"
    /\ pre = NoPreprocess
    /\ mediaEvent = "none"
    /\ ConvertInit
    /\ session = NoSession
    /\ files = NoFiles
    /\ video = [readyState |-> HAVE_METADATA, duration |-> MaxDuration,
                currentTime |-> 0, seeking |-> FALSE]
    /\ canvas = [context |-> TRUE, width |-> DefaultCanvas.width,
                 height |-> DefaultCanvas.height, bitmap |-> <<>>]

SpecConvert == InitConvert /\ [][NextConvert]_vars

\* ------------------------------------------------------------------ reading the trace
EventsOf(kind) == SelectSeq(trace, LAMBDA e : e.ev = kind)
Captured == EventsOf("onFrameCaptured")
Progress == EventsOf("onProgress")
Completions == EventsOf("onComplete")
Samples == EventsOf("seeked")
SeekRequests == EventsOf("seek")
Happened(event) == \E i \in 1..Len(trace) : trace[i] = event
SampleDone(time) == \E i \in 1..Len(trace) :
                       trace[i].ev = "onProgress" /\ trace[i].time = time

\* ------------------------------------------------------------------ C1
\* C1: the captured frames (screenshots, the onFrameCaptured calls) never
\* outnumber maxScreenshots, and neither does the list given to onComplete.
CapNeverExceeded ==
    /\ Len(screenshots) <= options.maxScreenshots
    /\ Len(Captured) <= options.maxScreenshots
    /\ \A i \in 1..Len(Completions) :
          Len(Completions[i].arg) <= options.maxScreenshots

\* The cap, not the end of the video, stopped a walk.
CapReachedEarly ==
    /\ pc = "done"
    /\ options.maxScreenshots >= 2
    /\ Len(screenshots) = options.maxScreenshots
    /\ Len(Captured) = options.maxScreenshots
    /\ currentTime <= totalDuration.val

\* ------------------------------------------------------------------ C2
\* C2 as stated: once the sample at time 0 has been processed, it has been
\* emitted through onFrameCaptured.
FirstSampleAlwaysEmitted ==
    SampleDone(0) =>
        \E i \in 1..Len(Captured) : Captured[i].time = 0

\* C2, amended: the sample at time 0 is always handed to the encoder, whatever
\* the threshold and the frame, and it is the first frame emitted whenever the
\* encoder delivers a blob; it is dropped only when toBlob calls back with null.
FirstSampleEmittedIfEncoded ==
    SampleDone(0) =>
        /\ trace[1] = Seek(0)
        /\ trace[2].ev = "seeked" /\ trace[2].time = 0
        /\ trace[3] = ToBlob(0)
        /\ trace[4].ev = "toBlobCallback" /\ trace[4].time = 0
        /\ IF trace[4].ok
           THEN /\ trace[5] = OnFrameCaptured(0, Blob(0, ImageData(FrameW, FrameH,
                                                                    trace[2].data)))
                /\ Captured[1] = trace[5]
           ELSE \A i \in 1..Len(Captured) : Captured[i].time # 0

\* The first sample was emitted under a threshold no difference can exceed.
FirstSampleEmittedHighThreshold ==
    /\ SampleDone(0)
    /\ options.differenceThreshold = 300
    /\ Len(Captured) = 1
    /\ Captured[1].time = 0
    /\ Len(Samples) >= 2

\* ------------------------------------------------------------------ C3
\* C3 as stated: no two consecutive captured frames are bit-identical.
ConsecutiveCapturesNeverIdentical ==
    \A i \in 1..(Len(screenshots) - 1) :
        screenshots[i].data # screenshots[i + 1].data

\* The frame sampled at `time`, if that sample has been taken.
SampleAt(time) ==
    LET found == SelectSeq(Samples, LAMBDA e : e.time = time)
    IN  IF found = <<>> THEN <<>> ELSE found[1].data

\* C3, amended: for a threshold >= 0, a captured frame is never bit-identical to
\* the sample taken immediately before it, so two captures of adjacent samples
\* are never bit-identical; captures with rejected samples between them can be.
CaptureDiffersFromPreviousSample ==
    options.differenceThreshold >= 0 =>
        /\ \A i \in 1..Len(Captured) :
              Captured[i].time > 0 =>
                 Captured[i].arg.data
                    # SampleAt(Captured[i].time - options.captureInterval)
        /\ \A i \in 1..(Len(screenshots) - 1) :
              screenshots[i + 1].time = screenshots[i].time + options.captureInterval
                 => screenshots[i].data # screenshots[i + 1].data

\* Two captures of adjacent samples under a threshold of 0.
AdjacentSamplesBothCaptured ==
    /\ options.differenceThreshold = 0
    /\ Len(screenshots) >= 2
    /\ screenshots[2].time = screenshots[1].time + options.captureInterval

\* ------------------------------------------------------------------ C4
\* C4: no early exit on a run of rejected samples: the samples are taken at
\* 0, captureInterval, 2 * captureInterval, ... without a gap, and a walk that
\* ends below the cap has sampled every k * captureInterval <= duration.
NoEarlyExit ==
    /\ \A i \in 1..Len(Samples) :
          Samples[i].time = (i - 1) * options.captureInterval
    /\ (pc = "done" /\ Len(screenshots) < options.maxScreenshots) =>
          \A k \in 0..(MaxDuration + 1) :
              k * options.captureInterval <= totalDuration.val =>
                 /\ SampleAt(k * options.captureInterval) # <<>>
                 /\ SampleDone(k * options.captureInterval)

\* A walk ended below the cap after at least two rejections in a row.
LongStaticRunScanned ==
    /\ pc = "done"
    /\ Len(screenshots) < options.maxScreenshots
    /\ noNewScreenshotCount >= 2
    /\ Len(Samples) >= 3

EncodeKeepsOrder ==
    /\ \A i \in 1..(Len(Captured) - 1) : Captured[i].time < Captured[i + 1].time
    /\ \A i \in 1..(Len(trace) - 1) :
          trace[i].ev = "toBlob" =>
             trace[i + 1].ev = "toBlobCallback" /\ trace[i + 1].time = trace[i].time
    /\ pc = "seeking" => pendingBlob = NoImageData
    /\ video.seeking => pendingBlob = NoImageData

\* A seek was started right after an encode callback delivered the second frame.
SeekAfterEncode ==
    /\ pc = "seeking"
    /\ Len(Captured) >= 2
    /\ trace[Len(trace)].ev = "seek"
    /\ trace[Len(trace) - 2].ev = "onFrameCaptured"

\* ------------------------------------------------------------------ C7
\* p is x rounded to the nearest integer, halves up, for x = 100 * time / duration.
IsRoundedPercent(p, time, duration) ==
    /\ 2 * duration * p - duration <= 200 * time
    /\ 200 * time < 2 * duration * p + duration

\* C7: the i-th value passed to onProgress is round(t / totalDuration * 100) for
\* the i-th sample time t, and the values never decrease.
ProgressRoundedAndMonotonic ==
    /\ \A i \in 1..Len(Progress) :
          /\ Progress[i].time = (i - 1) * options.captureInterval
          /\ IF totalDuration.val = 0
             THEN Progress[i].arg.nan
             ELSE /\ ~Progress[i].arg.nan
                  /\ IsRoundedPercent(Progress[i].arg.val, Progress[i].time,
                                      totalDuration.val)
    /\ \A i \in 1..(Len(Progress) - 1) :
          (~Progress[i].arg.nan /\ ~Progress[i + 1].arg.nan) =>
             Progress[i].arg.val <= Progress[i + 1].arg.val

\* Progress 0, 33, 67, 100 was reported over a video of three ticks.
ProgressRoundedUp ==
    /\ Len(Progress) = 4
    /\ Progress[2].arg = Num(33)
    /\ Progress[3].arg = Num(67)
    /\ Progress[4].arg = Num(100)

\* ------------------------------------------------------------------ C8
\* C8: every progress value reported to a caller is a number from 0 to 100:
\* those of extractFramesFromVideo, for any video duration, and those of
\* convertToMp4's log handler, progress handler and final update.
ProgressAlwaysInRange ==
    /\ \A i \in 1..Len(Progress) :
          /\ ~Progress[i].arg.nan
          /\ Progress[i].arg.val \in 0..100
    /\ \A i \in 1..Len(conv.reports) : conv.reports[i].value \in 0..100

\* ------------------------------------------------------------------ C9
\* C9: without a 2D context the call ends before any seek and any callback, and
\* the canvas size and the playback position stay as they were.
NoContextNoEffect ==
    [][~canvas.context =>
          /\ pc = "ready"
          /\ pc' = "returned"
          /\ trace' = <<>>
          /\ UNCHANGED <<video, canvas>>]_vars

\* The call returned for want of a context on a video not at its start.
ReturnedWithoutContext ==
    /\ pc = "returned"
    /\ ~canvas.context
    /\ video.currentTime > 0

\* ------------------------------------------------------------------ C10
\* C10: a missing 2D context is surfaced: extractFramesFromVideo does not just
\* return, and handleProcessVideo ends with processingState "error".
ContextFailureSurfaced ==
    ~canvas.context =>
        /\ pc # "returned"
        /\ hpv \in {"ended", "caught"} => page.processingState = "error"

\* ------------------------------------------------------------------ C11
\* preprocessVideo has returned to handleProcessVideo, which passed the
\* threshold on to extractFramesFromVideo.
Calibrated == page.autoThreshold /\ hpv \in {"extract", "ended"}

\* The median of the collected differences, sortedDifferences[floor(length / 2)].
MedianDiff == pre.differences[(Len(pre.differences) \div 2) + 1]

DegenerateInputGivesDefault ==
    (canvas.context /\ page.autoThreshold /\ pre.totalDuration = Num(0)) =>
        /\ hpv # "caught"
        /\ Calibrated => options.differenceThreshold = 30

\* ------------------------------------------------------------------ C13
\* difference <= v
ScoreAtMost(difference, v) ==
    \/ difference.sum[1] < v * v * difference.n
    \/ difference.sum = <<v * v * difference.n, 0>>

\* threshold = Math.max(10, Math.min(medianDiff, 60)), the README's return value
IsReadmeThreshold(threshold, medianDiff) ==
    IF ScoreAtMost(medianDiff, 10) THEN threshold = 10
    ELSE IF ~ScoreAtMost(medianDiff, 60) THEN threshold = 60
    ELSE medianDiff.sum = <<threshold * threshold * medianDiff.n, 0>>

EncoderDelivers ==
    \A i \in 1..Len(trace) : trace[i].ev = "toBlobCallback" => trace[i].ok

\* The video showed one and the same frame at every sample.
ConstantColour ==
    \A i, j \in 1..Len(Samples) : Samples[i].data = Samples[j].data

AlternatingColours ==
    /\ \A i \in 1..Len(Samples) : Samples[i].data \in {Black, White}
    /\ \A i \in 1..(Len(Samples) - 1) : Samples[i].data # Samples[i + 1].data

\* The threshold is below the difference of black and white.
BelowBlackWhite(threshold) ==
    Exceeds(calculateImageDifference(ImageData(FrameW, FrameH, Black),
                                     ImageData(FrameW, FrameH, White)),
            threshold)

ExecCalls == SelectSeq(ffmpeg.calls, LAMBDA c : c \in {"copy", "fallback"})

\* In this step a command ends without success: its run fails or its exec
\* promise rejects.
RunFailsNow ==
    /\ Len(ffmpeg'.runs) = Len(ffmpeg.runs) + 1
    /\ ffmpeg'.runs[Len(ffmpeg'.runs)].outcome # "ok"

\* In this step the 5-minute timer fires.
TimerFiresNow == conv.timer = "armed" /\ conv'.timer = "fired"

\* C17: whenever the copy command convertToMp4 awaits fails (a failed run, a
\* rejected exec promise or the timeout), the caller sees no error and
\* convertToMp4 goes on to await the re-encode command; no error of the copy
\* phase is terminal.
FastPathFailureAbsorbed ==
    /\ [](conv.pc = "rejected" => conv.error.at # "copy")
    /\ [][(conv.pc = "copy" /\ (RunFailsNow \/ TimerFiresNow)) =>
             /\ conv'.pc = "fallback"
             /\ ExecCalls' = <<"copy", "fallback">>]_vars

\* ------------------------------------------------------------------ C18
\* C18: the re-encode command is given only when the awaited copy command was
\* rejected or timed out; when the copy command succeeds, it is the only exec
\* command given, and the blob convertToMp4 returns is the non-empty output of
\* that run.
FallbackOnlyAfterFailure ==
    /\ [](conv.pc = "resolved" => conv.result = "data")
    /\ []((conv.copySucceeded /\ ffmpeg.runs[1].outcome = "ok") =>
             /\ ExecCalls = <<"copy">>
             /\ conv.pc = "resolved" => conv.result = ffmpeg.runs[1].output)
    /\ [][ExecCalls' = Append(ExecCalls, "fallback") =>
             /\ conv.pc = "copy"
             /\ TimerFiresNow \/ (RunFailsNow /\ ffmpeg'.runs[1].outcome = "rejected")
          ]_vars

\* A conversion that the copy command alone completed.
CopyAloneConverted ==
    /\ conv.pc = "resolved"
    /\ conv.copySucceeded
    /\ ffmpeg.runs = <<Run("copy", "ok", "data")>>
    /\ ExecCalls = <<"copy">>
    /\ conv.result = "data"

\* ------------------------------------------------------------------ C19
\* C19: once the copy phase has failed, a re-encode run that ends successfully
\* with a non-empty output makes convertToMp4 resolve (no error of the
\* transcoding phases reaches the caller), and a re-encode run that fails makes
\* it reject (no blob is accepted).
FallbackOutcomeDecides ==
    \A i \in 1..Len(ffmpeg.runs) :
        ffmpeg.runs[i].command = "fallback" =>
            /\ (ffmpeg.runs[i].outcome = "ok" /\ ffmpeg.runs[i].output = "data") =>
                  ~(conv.pc = "rejected" /\ conv.error.at \in {"copy", "fallback"})
            /\ ffmpeg.runs[i].outcome # "ok" =>
                  conv.pc \notin {"deleteInput", "deleteOutput", "resolved"}

\* ------------------------------------------------------------------ C20
\* C20: once the input is written, every exit of convertToMp4, resolved or
\* rejected, comes after a deleteFile call for the input and one for the output.
CleanupOnEveryExit ==
    (conv.pc \in {"resolved", "rejected"} /\ ExecCalls # <<>>) =>
        /\ \E i \in 1..Len(ffmpeg.calls) : ffmpeg.calls[i] = "deleteFile input"
        /\ \E i \in 1..Len(ffmpeg.calls) : ffmpeg.calls[i] = "deleteFile output"

\* ------------------------------------------------------------------ C21
\* C21: a deleteFile of the cleanup that rejects, for the input or for the
\* output, never reaches the caller: the step ends the engine and resolves
\* convertToMp4 with the blob read before the cleanup, and no rejection of
\* convertToMp4 comes from the cleanup.
CleanupFailureNotPropagated ==
    /\ [](conv.pc = "rejected" => conv.error.at \notin {"deleteInput", "deleteOutput"})
    /\ [](conv.pc \in {"deleteInput", "deleteOutput"} => conv.result = "data")
    /\ [][conv.pc \in {"deleteInput", "deleteOutput"} =>
             /\ conv'.pc \in {conv.pc, "deleteOutput", "resolved"}
             /\ conv'.result = conv.result
             /\ (conv'.pc = "resolved" /\ ffmpeg'.output # "absent") =>
                    /\ ffmpeg'.terminated
                    /\ ffmpeg'.input = ffmpeg.input]_vars

\* convertToMp4 resolved with the blob although the deleteFile of the input
\* was rejected: input.* is still in the engine's file system.
ResolvedAfterInputCleanupFailed ==
    /\ conv.pc = "resolved"
    /\ conv.result = "data"
    /\ ffmpeg.input
    /\ ffmpeg.terminated

\* ------------------------------------------------------------------ C22
\* The final progress update onProgress(100) has been made.
FinalReported == \E i \in 1..Len(conv.reports) : conv.reports[i].by = "final"

\* C22: convertToMp4 never returns an empty blob: when the output read back is
\* missing or has length 0 the call rejects without the final update of 100
\* and without a blob; the final update is made only for a non-empty output,
\* and only then is there a blob to return.
EmptyOutputRejected ==
    /\ []((conv.pc = "rejected" /\ conv.error.at = "reading") =>
             /\ conv.result = "none"
             /\ ~FinalReported)
    /\ [](FinalReported => (conv.onProgress /\ conv.result = "data"))
    /\ [](conv.result \in {"none", "data"})
    /\ [][(conv.pc = "reading" /\ ffmpeg.output # "data" /\ conv'.pc # "reading") =>
             /\ conv'.pc = "rejected"
             /\ conv'.reports = conv.reports]_vars

\* The re-encode run left an empty output.mp4, the engine had reported a
\* progress of 100 before, and the call was rejected at the check.
EmptyOutputWasRejected ==
    /\ conv.pc = "rejected"
    /\ conv.error.at = "reading"
    /\ conv.error.message = EmptyOutputMessage
    /\ ffmpeg.output = "empty"
    /\ conv.onProgress
    /\ conv.reports # <<>>

\* ------------------------------------------------------------------ C23
\* C23: one timer bounds both transcoding phases.  It is armed once and fires
\* at most once; when it fires while the copy or the re-encode command is
\* awaited, convertToMp4 stops awaiting, the command stays with the engine
\* (abandoned, not killed), and the call rejects with the timeout-classified
\* error.
OneTimerBoundsBothPhases ==
    /\ [](conv.pc \in {"copy", "fallback"} => conv.timer = "armed")
    /\ []((conv.pc = "rejected" /\ conv.error.at \in {"copy", "fallback"}
                                  /\ conv.error.message = TimeoutMessage) =>
             conv.error.class = "timeout")
    /\ [][conv.timer # conv'.timer =>
             \/ conv.timer = "none" /\ conv'.timer = "armed" /\ conv'.pc = "copy"
             \/ conv.timer = "armed" /\ conv'.timer = "fired"]_vars
    /\ [][(TimerFiresNow /\ conv.pc \in {"copy", "fallback"}) =>
             /\ conv'.pc = "rejected"
             /\ conv'.error.class = "timeout"
             /\ \A i \in 1..Len(ffmpeg.running) :
                    ffmpeg'.running[i] = ffmpeg.running[i]
             /\ ~ffmpeg'.terminated]_vars

\* The timer fired while the re-encode command was awaited, a rejected copy
\* exec behind it: the call is rejected as a timeout, the command is still
\* running.
TimedOutInFallback ==
    /\ conv.pc = "rejected"
    /\ conv.error = [class |-> "timeout", message |-> TimeoutMessage,
                     at |-> "fallback"]
    /\ conv.timer = "fired"
    /\ ffmpeg.running = <<"fallback">>
    /\ Len(ffmpeg.runs) = 1

\* ------------------------------------------------------------------ C24
\* The order of the tests of the catch block.
KeywordOrder == <<"SharedArrayBuffer", "network", "memory", "timeout">>

\* C24: a failure reaches the caller as one rejection, which stays as it is:
\* its class is the first of "SharedArrayBuffer", "network", "memory",
\* "timeout", in that order, that the message contains, and an error whose
\* message contains none of them is rethrown with its message unchanged.
OneClassifiedRejection ==
    /\ [](conv.pc = "rejected" =>
             LET m == conv.error.message
                 c == conv.error.class
             IN  /\ m \in ErrorMessages
                 /\ (m \cap Keywords = {}) <=> (c = "generic")
                 /\ c # "generic" =>
                        \E i \in 1..Len(KeywordOrder) :
                           /\ c = KeywordOrder[i]
                           /\ c \in m
                           /\ \A j \in 1..(i - 1) : KeywordOrder[j] \notin m)
    /\ [][conv.pc = "rejected" =>
             /\ conv'.pc = "rejected"
             /\ conv'.error = conv.error
             /\ conv'.result = conv.result]_vars
    /\ [][conv.pc = "resolved" => conv'.pc = "resolved"]_vars

\* An error whose message holds two of the words was rejected under the first
\* in the order of the tests.
RejectedUnderFirstKeyword ==
    /\ conv.pc = "rejected"
    /\ conv.error.message = {"memory", "timeout"}
    /\ conv.error.class = "memory"

\* ------------------------------------------------------------------ C25
\* C25: once the engine's progress event has made an onProgress call (its
\* value was non-zero), no later onProgress call comes from the log handler.
NumericProgressTakesPrecedence ==
    \A i \in 1..Len(conv.reports), j \in 1..Len(conv.reports) :
        (i < j /\ conv.reports[i].by = "progress") => conv.reports[j].by # "log"

\* ------------------------------------------------------------------ C27
\* The sample taken at `time` was handed to the encoder.
EncodeRequested(time) == \E i \in 1..Len(trace) : trace[i] = ToBlob(time)

\* C27: after every sample previousImageData holds the frame of that sample,
\* captured or not, and the decision about each sample after the first is
\* difference(sample before it, sample) > threshold: the baseline is never the
\* last captured frame.
BaselineIsPreviousSample ==
    /\ Samples = <<>> => previousImageData = NoImageData
    /\ Samples # <<>> =>
          previousImageData.data = Samples[Len(Samples)].data
    /\ \A i \in 2..Len(Samples) :
          EncodeRequested(Samples[i].time) <=>
             Exceeds(calculateImageDifference(
                         ImageData(canvas.width, canvas.height, Samples[i - 1].data),
                         ImageData(canvas.width, canvas.height, Samples[i].data)),
                     options.differenceThreshold)

\* Three samples drifting from black to gray in two steps of 10 under a
\* threshold of 15: the third differs from the first, the last captured
\* frame, by 20, and is not captured.
DriftNotCaptured ==
    /\ Len(Samples) >= 3
    /\ Samples[1].data = Black
    /\ Samples[2].data = Gray10
    /\ Samples[3].data = Gray20
    /\ options.differenceThreshold = 15
    /\ pc \in {"seeking", "done"}
    /\ EncodeRequested(Samples[1].time)
    /\ ~EncodeRequested(Samples[2].time)
    /\ ~EncodeRequested(Samples[3].time)

\* ------------------------------------------------------------------ C28
\* C28: for a duration above 0 preprocessVideo takes sampleCount =
\* clamp(floor(duration / 10), 20, 50), samples the boundaries 0, 1, ...,
\* sampleCount of the intervals of duration / sampleCount, and collects one
\* difference per adjacent pair of boundaries: sampleCount differences.
OneScorePerInterval ==
    (Calibrated /\ ~pre.totalDuration.nan /\ pre.totalDuration.val > 0) =>
        /\ pre.sampleCount =
              Num(Max(20, Min(pre.totalDuration.val \div 10, 50)))
        /\ pre.k = pre.sampleCount.val + 1
        /\ Len(pre.differences) = pre.sampleCount.val

\* ------------------------------------------------------------------ C29
\* h is Math.floor(difference * 0.5).
IsFloorOfHalf(h, difference) ==
    /\ 4 * h * h * difference.n <= difference.sum[1]
    /\ difference.sum[1] < 4 * (h + 1) * (h + 1) * difference.n

\* h is Math.round(difference * 0.5): h <= difference / 2 + 1/2 < h + 1.
IsRoundOfHalf(h, difference) ==
    /\ h = 0 \/ (2 * h - 1) * (2 * h - 1) * difference.n <= difference.sum[1]
    /\ difference.sum[1] < (2 * h + 1) * (2 * h + 1) * difference.n

\* The threshold is the halved median clamped to [5, 40] for the median
\* `medianDiff`, whichever way the half is made an integer.
ThresholdFollowsFrom(threshold, medianDiff) ==
    \E h \in 0..128 :
        /\ IsFloorOfHalf(h, medianDiff) \/ IsRoundOfHalf(h, medianDiff)
        /\ threshold = Max(5, Min(h, 40))

\* The lower of the two middle elements of an even count (the middle element
\* of an odd one).
LowerMiddleDiff == pre.differences[(Len(pre.differences) + 1) \div 2]

\* C29 as stated: the median is the middle element of the differences in
\* ascending order, the lower-index one of the two middle elements when their
\* number is even.
MedianIsLowerMiddle ==
    (Calibrated /\ pre.differences # <<>>) =>
        ThresholdFollowsFrom(options.differenceThreshold, LowerMiddleDiff)

\* C29, amended: the median is the element at index floor(length / 2) (from 0)
\* of the differences in ascending order: the middle element of an odd count,
\* the higher-index one of the two middle elements of an even count.
MedianIsUpperMiddle ==
    (Calibrated /\ pre.differences # <<>>) =>
        /\ \A i \in 1..(Len(pre.differences) - 1) :
              ~ScoreLess(pre.differences[i + 1], pre.differences[i])
        /\ ThresholdFollowsFrom(options.differenceThreshold,
                                pre.differences[(Len(pre.differences) \div 2) + 1])

\* A calibration collected an even number of differences whose two middle
\* elements give different thresholds.
MiddleElementsDisagree ==
    /\ Calibrated
    /\ Len(pre.differences) = 20
    /\ ThresholdFollowsFrom(5, pre.differences[10])
    /\ ThresholdFollowsFrom(40, pre.differences[11])
    /\ options.differenceThreshold = 40

\* ------------------------------------------------------------------ C30
\* C30 as stated: the threshold is clamp(round(median * 0.5), 5, 40), the half
\* rounded to the nearest integer.
HalfRoundedToNearest ==
    (Calibrated /\ pre.differences # <<>>) =>
        \E h \in 0..128 :
            /\ IsRoundOfHalf(h, MedianDiff)
            /\ options.differenceThreshold = Max(5, Min(h, 40))

\* C30, amended: the threshold is clamp(floor(median * 0.5), 5, 40), the half
\* rounded down: a half of 7.5 gives 7.
HalfRoundedDown ==
    (Calibrated /\ pre.differences # <<>>) =>
        \E h \in 0..128 :
            /\ IsFloorOfHalf(h, MedianDiff)
            /\ options.differenceThreshold = Max(5, Min(h, 40))

\* A calibration whose median is 15, black against gray 15: the half is 7.5
\* and the threshold 7.
HalfOfOddMedian ==
    /\ Calibrated
    /\ pre.differences # <<>>
    /\ MedianDiff = calculateImageDifference(
                        ImageData(FrameW, FrameH, Black),
                        ImageData(FrameW, FrameH, Gray15))
    /\ IsRoundOfHalf(8, MedianDiff)
    /\ options.differenceThreshold = 7

\* ------------------------------------------------------------------ C26
\* The handleProcessVideo calls whose calibration or extraction loop is seeking
\* and drawing on the page's canvas.
ActiveRuns ==
    {i \in 0..Len(session.others) :
        (IF i = 0 THEN hpv ELSE session.others[i].hpv) \in {"preprocess", "extract"}}

\* C26: whatever the user does on the page (select a file, process, reset,
\* select another file, process again), at most one calibration or extraction
\* loop is seeking and drawing on the page's canvas at any time.
OneRunOnTheCanvas == Cardinality(ActiveRuns) <= 1

\* ------------------------------------------------------------------ C31
\* C31: the difference of a frame to itself is 0, and a sample that shows the
\* frame of the sample before it is not handed to the encoder under any
\* threshold >= 0.
IdenticalSampleNotCaptured ==
    /\ \A data \in Frames :
          calculateImageDifference(ImageData(FrameW, FrameH, data),
                                   ImageData(FrameW, FrameH, data)).sum = <<0, 0>>
    /\ \A i \in 2..Len(Samples) :
          (Samples[i].data = Samples[i - 1].data /\ options.differenceThreshold >= 0)
              => ~EncodeRequested(Samples[i].time)

\* Under a threshold of 0 a sample repeated the white frame of the captured
\* sample before it and was passed over.
RepeatedFramePassedOver ==
    /\ options.differenceThreshold = 0
    /\ Len(Samples) >= 2
    /\ Samples[1].data = White
    /\ Samples[2].data = White
    /\ EncodeRequested(Samples[1].time)
    /\ ~EncodeRequested(Samples[2].time)
    /\ pc \in {"seeking", "done"}

\* ------------------------------------------------------------------ C32
\* C32: any two consecutive onProgress calls of the log handler are more than
\* 2 seconds apart, and every one of them is more than 2 seconds after the
\* handler last found an update due.
LogProgressThrottled ==
    /\ [](\A i \in 1..(Len(conv.logTimes) - 1) :
             conv.logTimes[i + 1] - conv.logTimes[i] > Throttle)
    /\ [][Len(conv'.logTimes) > Len(conv.logTimes) =>
             /\ now - conv.lastProgressUpdate > Throttle
             /\ conv'.lastProgressUpdate = now
             /\ Len(conv'.logTimes) = Len(conv.logTimes) + 1]_vars

\* The log handler reported twice, the second time as soon as it could.
LogReportedTwice ==
    /\ Len(conv.logTimes) = 2
    /\ conv.logTimes[2] - conv.logTimes[1] = Throttle + 1
    /\ conv.reports[1].by = "log"
    /\ conv.reports[2].by = "log"

\* ------------------------------------------------------------------ C33
\* C33: every seek firing its event and every encoding its callback, a run of
\* extractFramesFromVideo that got a context calls onComplete, once, and has
\* taken at most floor(duration / captureInterval) + 1 samples by then.
ExtractionTerminates ==
    /\ (pc \in {"seeking", "encoding"}) ~> (pc = "done" /\ Len(Completions) = 1)
    /\ [](pc \in {"seeking", "encoding", "done"} =>
             Len(Samples) <= (totalDuration.val \div options.captureInterval) + 1)

\* A run over the longest video at the shortest step ended after
\* floor(duration / captureInterval) + 1 samples.
EndedAfterEverySample ==
    /\ pc = "done"
    /\ totalDuration = Num(MaxDuration)
    /\ options.captureInterval = 1
    /\ Len(Samples) = MaxDuration + 1
    /\ Len(Completions) = 1

\* ------------------------------------------------------------------ C34
\* C34: while no file is selected, which is the page after handleReset until
\* the user selects again, no frame is shown, none is selected and the
\* processing state is "idle": no callback of an abandoned run writes into
\* the page.
AbandonedRunLeavesPageAlone ==
    ~page.selectedFile =>
        /\ page.screenshots = <<>>
        /\ page.selectedFrames = {}
        /\ page.processingState = "idle"

\* ------------------------------------------------------------------ C35
\* C35: while the page holds a file, a call of handleFileSelect that a reset
\* left behind changes none of selectedFile, videoUrl and processingState when
\* its convertToMp4 resolves or rejects or its getVideoMetadata settles.
AbandonedSelectionIgnored ==
    [][\A i \in 1..Len(files.calls) :
          (/\ files.selectedFile # ""
           /\ ~files.calls[i].current
           /\ files'.calls \in
                 {[files.calls EXCEPT ![i].at = "metadata"],
                  [j \in 1..(Len(files.calls) - 1) |->
                      IF j < i THEN files.calls[j] ELSE files.calls[j + 1]]})
          => /\ files'.selectedFile = files.selectedFile
             /\ files'.videoUrl = files.videoUrl
             /\ page'.processingState = page.processingState]_vars

\* ------------------------------------------------------------------ C36
\* C36: the engine has at most one exec command in flight: the re-encode is
\* given only when the stream copy has ended, if the copy was given up for
\* the timeout too.
OneExecInFlight == Len(ffmpeg.running) <= 1

\* ------------------------------------------------------------------ C37
\* C37: a convertToMp4 call that has resolved or rejected leaves no loaded
\* engine behind: ffmpeg.terminate() was called on every path.
SettledCallTerminatedEngine ==
    conv.pc \in {"resolved", "rejected"} => ~ffmpeg.loaded

\* ------------------------------------------------------------------ C38
\* C38: the selected frames are indices of frames the page shows, in every
\* state, and the step in which a run completes selects every index of the
\* frames shown, which are the frames that run captured.
SelectionWithinFrames ==
    /\ [](page.selectedFrames \subseteq 0..(Len(page.screenshots) - 1))
    /\ [][page'.processingState = "completed" /\ page.processingState # "completed"
            => page'.selectedFrames = 0..(Len(page'.screenshots) - 1)]_vars

====
